---- MODULE Spec2Model ----
(***************************************************************************)
(* Verification model of two files of the VLC tree:                        *)
(*                                                                         *)
(*   modules/gui/qt/medialibrary/mlbasemodel.cpp                           *)
(*       MLBaseModel (the list model, UI thread) and MLListCacheLoader     *)
(*       (the task dispatcher between the UI thread and the media-library  *)
(*       thread).  Specification: Spec.  The pure computation of the       *)
(*       load-by-index-set task is also checked alone: SpecLoad.  The      *)
(*       model's other operations have specifications of their own over    *)
(*       the same state: SpecQuery (sort, search pattern, parent, loads),  *)
(*       SpecParams (every property setter), SpecMl (two media libraries   *)
(*       and the destructor), SpecEdit (the cache edited in place).        *)
(*                                                                         *)
(*   modules/video_output/win32/common.c                                   *)
(*       the Win32 display helper (CommonInit, UpdateRects, CommonManage,  *)
(*       CommonControl).  Specification: SpecWin.                          *)
(*                                                                         *)
(* Code of the repository that these files call but that is not part of    *)
(* the two files (ListCache, MediaLib::runOnMLThread, the subclasses'      *)
(* createLoader/cachable, the Win32 event thread) is modelled from its     *)
(* documented behaviour and marked as such where it is defined.            *)
(***************************************************************************)
EXTENDS Integers, Sequences, FiniteSets, TLC

(***************************************************************************)
(* Bounds of the model.                                                    *)
(***************************************************************************)
MaxRows == 2
MaxTasks == 2
MaxCaches == 2
MaxIdx == 1
MaxLoadIdx == 3
MaxLoadRows == 5
MaxPos == 1
MaxW == 2
MaxH == 1

VARIABLES
    \* ---- MLBaseModel fields (UI thread)
    m_mediaLib,          \* MediaLib*            (NoMl: nullptr)
    m_ml_event_handle,   \* the media library the listener is registered on
    m_qmlInitializing,   \* bool
    m_need_reset,        \* bool
    m_sort,              \* vlc_ml_sorting_criteria_t
    m_sort_desc,         \* bool
    m_search_pattern,    \* QString
    m_parent,            \* MLItemId           (0: MLItemId(), no parent)
    m_limit,             \* unsigned int
    m_offset,            \* unsigned int
    m_cache,             \* std::unique_ptr<MLListCache>   (NoCache: empty)
    m_itemLoader,        \* std::unique_ptr<MLListCacheLoader> (NoLoader: empty)
    \* ---- the task machinery and the threads
    tasks,               \* every task started by runOnMLThread, by task id
    cacheSeq,            \* identity of the next cache object
    uiPc,                \* where the UI thread is inside getData
    fault,               \* "none", or why the process died
    last,                \* the last UI operation: its result and what it did
    \* ---- the load-by-index-set computation taken alone (SpecLoad)
    ld_pc, ld_indexes, ld_rows, ld_ctx, ld_delivered,
    \* ---- the Win32 display helper (SpecWin)
    sys,                 \* vout_display_sys_win32_t
    windows,             \* the windows as the OS holds them
    event_thread,        \* the event thread's state (event_thread_t)
    w_pc,                \* "new", "ready", "failed", "aborted" ("off" elsewhere)
    w_last,              \* the last call of the helper: result and what it did
    w_fs                 \* the placement the window had before the pending
                         \* enter-fullscreen request

mlvars == << m_mediaLib, m_ml_event_handle, m_qmlInitializing, m_need_reset,
             m_sort, m_sort_desc, m_search_pattern, m_parent, m_limit,
             m_offset, m_cache, m_itemLoader, tasks, cacheSeq, uiPc, fault,
             last >>

ldvars == << ld_pc, ld_indexes, ld_rows, ld_ctx, ld_delivered >>

winvars == << sys, windows, event_thread, w_pc, w_last, w_fs >>

vars == << mlvars, ldvars, winvars >>

(***************************************************************************)
(* Values.                                                                 *)
(***************************************************************************)
NoMl == "nullptr"
MediaLibs == {"ml1"}

\* vlc_ml_sorting_criteria_t, two of its values.
VLC_ML_SORTING_DEFAULT == "VLC_ML_SORTING_DEFAULT"
VLC_ML_SORTING_ALPHA == "VLC_ML_SORTING_ALPHA"

\* A QString is null, or holds a text that may be empty; operator== of
\* QString compares the texts, so a null and an empty string are equal.
QStringNull == [isNull |-> TRUE, text |-> ""]

QString(text) == [isNull |-> FALSE, text |-> text]

QStringEqual(a, b) == a.text = b.text

\* An empty std::unique_ptr<MLItem>; items are named by their id, 1, 2, ...
NullItem == 0

\* mlbasemodel.cpp:39 takes the value from ListCache, where it is -1.
COUNT_UNINITIALIZED == -1

Min(a, b) == IF a < b THEN a ELSE b

(***************************************************************************)
(* The media library's answer to a query.  MLOp::load and MLOp::count are  *)
(* pure virtual and implemented by the model subclasses: the query result  *)
(* is the list of the library's items in the loader's sort order, and load *)
(* returns the rows offset .. offset+nbResults-1 of it that exist.         *)
(***************************************************************************)
QueryResult(n, desc) == [i \in 1..n |-> IF desc THEN n - i + 1 ELSE i]

\* i_offset is unsigned: a negative offset is a huge one, past every row.
OpLoad(Q, offset, nbResults) ==
    IF offset < 0 \/ offset >= Len(Q) THEN << >>
    ELSE SubSeq(Q, offset + 1, Min(offset + nbResults, Len(Q)))

OpCount(Q) == Len(Q)

\* The rows a query with the parameters of op yields on a library of n items:
\* the items that match the search pattern and belong to the parent, in the
\* order of the sort criterion, reversed for a descending sort.  A pattern
\* is matched by the items of odd id, a parent p holds the items up to p, and
\* the alphabetical order is the order of the ids rotated by one.
OpQuery(n, op) ==
    LET S    == {i \in 1..n : /\ (op.pattern.isNull \/ i % 2 = 1)
                              /\ (op.parent = 0 \/ i <= op.parent)}
        m    == Cardinality(S)
        byId == [k \in 1..m |->
                    CHOOSE i \in S : Cardinality({j \in S : j < i}) = k - 1]
        asc  == IF op.sort = VLC_ML_SORTING_ALPHA
                THEN [k \in 1..m |-> byId[(k % m) + 1]]
                ELSE byId
    IN  IF op.desc THEN [k \in 1..m |-> asc[m - k + 1]] ELSE asc

OpLoadItemById(Q, itemId) ==
    IF \E i \in 1..Len(Q) : Q[i] = itemId THEN itemId ELSE NullItem

(***************************************************************************)
(* MLListCacheLoader::loadItemsTask, the part run on the ML thread          *)
(* (mlbasemodel.cpp:692-733).                                              *)
(***************************************************************************)
MAX_DIFFERENCE == 4

RECURSIVE InsertSorted(_, _)
InsertSorted(x, s) ==
    IF s = << >> THEN << x >>
    ELSE IF x <= Head(s) THEN << x >> \o s
    ELSE << Head(s) >> \o InsertSorted(x, Tail(s))

\* std::sort(sortedIndexes.begin(), sortedIndexes.end())
RECURSIVE SortIndexes(_)
SortIndexes(s) ==
    IF s = << >> THEN << >> ELSE InsertSorted(Head(s), SortIndexes(Tail(s)))

\* the loop "for (const auto index : sortedIndexes)" over the ranges vector
RECURSIVE BuildRanges(_, _)
BuildRanges(ranges, rest) ==
    IF rest = << >> THEN ranges
    ELSE LET index == Head(rest)
             back  == ranges[Len(ranges)]
         IN  IF (index - back.high) < MAX_DIFFERENCE
             THEN BuildRanges([ranges EXCEPT ![Len(ranges)].high = index],
                              Tail(rest))
             ELSE BuildRanges(Append(ranges, [low |-> index, high |-> index]),
                              Tail(rest))

IndexRanges(indexes) ==
    LET sortedIndexes == SortIndexes(indexes)
    IN  BuildRanges(<< [low |-> sortedIndexes[1], high |-> sortedIndexes[1]] >>,
                    sortedIndexes)

\* The inner loop over i: ctx.items.at(i) = std::move(data.at(targetIndex -
\* range.low)).  Moving out of data leaves an empty pointer behind; data.at()
\* past the end throws std::out_of_range.
RECURSIVE FillItems(_, _, _, _, _)
FillItems(items, data, indexes, range, i) ==
    IF i > Len(indexes) THEN [items |-> items, thrown |-> FALSE]
    ELSE LET targetIndex == indexes[i]
         IN  IF targetIndex >= range.low /\ targetIndex <= range.high
             THEN LET k == targetIndex - range.low
                  IN  IF k >= Len(data)
                      THEN [items |-> items, thrown |-> TRUE]
                      ELSE FillItems([items EXCEPT ![i] = data[k + 1]],
                                     [data EXCEPT ![k + 1] = NullItem],
                                     indexes, range, i + 1)
             ELSE FillItems(items, data, indexes, range, i + 1)

\* The loop "for (const auto range : ranges)": one load per range.  queries
\* is the list of the loads made so far, each with the i_offset and the
\* i_nbResults it was made with.
RECURSIVE LoadRanges(_, _, _, _, _)
LoadRanges(items, ranges, indexes, Q, queries) ==
    IF ranges = << >>
    THEN [items |-> items, thrown |-> FALSE, queries |-> queries]
    ELSE LET range == Head(ranges)
             i_offset    == range.low
             i_nbResults == range.high - range.low + 1
             data  == OpLoad(Q, i_offset, i_nbResults)
             made  == Append(queries, [i_offset |-> i_offset,
                                       i_nbResults |-> i_nbResults])
             r     == FillItems(items, data, indexes, range, 1)
         IN  IF r.thrown
             THEN [items |-> r.items, thrown |-> TRUE, queries |-> made]
             ELSE LoadRanges(r.items, Tail(ranges), indexes, Q, made)

\* The whole ML-thread lambda: ctx.items, or an exception leaving it.
LoadItemsTaskML(Q, indexes) ==
    IF indexes = << >>
    THEN [items |-> << >>, thrown |-> FALSE, queries |-> << >>]
    ELSE LoadRanges([i \in 1..Len(indexes) |-> NullItem],
                    IndexRanges(indexes), indexes, Q, << >>)

\* The UI-thread lambda: cb(id, ctx.items).
LoadItemsTaskUI(id, ctx) == << [id |-> id, items |-> ctx.items] >>


(***************************************************************************)
(* The UI-thread state as one record, so that a method's statements can be *)
(* composed in the order the code runs them.  ev is the trace of what the  *)
(* running operation did (signals emitted, calls on the cache), ret its    *)
(* return value, tid the id returned by the last runOnMLThread.            *)
(***************************************************************************)
NoLoader == [set |-> FALSE, ml |-> NoMl, parent |-> 0, pattern |-> QStringNull,
             sort |-> VLC_ML_SORTING_DEFAULT, desc |-> FALSE]

Rows == 0..(MaxRows - 1)

EmptyData == [r \in Rows |-> NullItem]

NoCache == [id |-> 0, loader |-> NoLoader, limit |-> 0, offset |-> 0,
            queryCount |-> COUNT_UNINITIALIZED, data |-> EmptyData]

St == [ml |-> m_mediaLib, handle |-> m_ml_event_handle,
       qml |-> m_qmlInitializing, need |-> m_need_reset, sort |-> m_sort,
       desc |-> m_sort_desc, pattern |-> m_search_pattern,
       parent |-> m_parent, limit |-> m_limit, offset |-> m_offset,
       cache |-> m_cache, itemLoader |-> m_itemLoader, tasks |-> tasks,
       seq |-> cacheSeq, fault |-> fault, ev |-> << >>, ret |-> 0, tid |-> 0]

Ev(s, name, arg) == [s EXCEPT !.ev = Append(@, << name, arg >>)]

Emitted(l, name) == \E i \in 1..Len(l.ev) : l.ev[i][1] = name

(***************************************************************************)
(* MediaLib::runOnMLThread (medialib.hpp, not in the two files): gives the *)
(* task the next id, queues its first lambda for the ML thread, and posts  *)
(* the second one to the UI thread's event loop when the first has ended;  *)
(* the id is returned to the caller.  Called through a null MediaLib       *)
(* pointer it is a null dereference.  A task record also keeps what the    *)
(* claims are about: mlDone (the first lambda has ended), early (it ended  *)
(* while the UI thread was still inside the call that started the task),   *)
(* cbs (the ids the caller's callback was called with), and for getData    *)
(* req (the request id), eng (qjsEngine() at delivery), js (the arrays the *)
(* JS callback was called with).                                           *)
(***************************************************************************)
NoCtx == [none |-> TRUE]

runOnMLThread(s, owner, kind, loader, arg, cb) ==
    IF loader.ml = NoMl THEN [s EXCEPT !.fault = "null_medialib"]
    ELSE [s EXCEPT !.tasks = Append(@, [id |-> Len(s.tasks) + 1,
                                         kind |-> kind, owner |-> owner,
                                         loader |-> loader, arg |-> arg,
                                         cb |-> cb, st |-> "queued",
                                         mlDone |-> FALSE, early |-> FALSE,
                                         ctx |-> NoCtx, cbs |-> << >>,
                                         req |-> 0, eng |-> FALSE,
                                         js |-> << >>]),
                   !.tid = Len(s.tasks) + 1]

(***************************************************************************)
(* MLListCacheLoader: the five task starters.  Each hands its two lambdas  *)
(* to runOnMLThread and returns the id it gets.  The ML-thread lambdas are *)
(* the ...ML operators, the UI-thread lambdas the ...UI operators; a UI    *)
(* operator yields the calls it makes of the caller's callback.            *)
(***************************************************************************)
countTask(s, owner, loader, cb) ==
    runOnMLThread(s, owner, "count", loader, << >>, cb)

CountTaskML(Q) == [count |-> OpCount(Q)]

\* A slip that swaps the two arguments of cb.
CountTaskUI_swapped(taskId, ctx) == << [id |-> ctx.count, count |-> taskId] >>

CountTaskUI(taskId, ctx) == << [id |-> taskId, count |-> ctx.count] >>

loadTask(s, owner, loader, offset, limit, cb) ==
    runOnMLThread(s, owner, "load", loader, << offset, limit >>, cb)

LoadTaskML(Q, offset, limit) == [list |-> OpLoad(Q, offset, limit)]

LoadTaskUI(taskId, ctx) == << [id |-> taskId, list |-> ctx.list] >>

countAndLoadTask(s, owner, loader, offset, limit, cb) ==
    runOnMLThread(s, owner, "countAndLoad", loader, << offset, limit >>, cb)

CountAndLoadTaskML(Q, offset, limit) ==
    [list |-> OpLoad(Q, offset, limit), maximumCount |-> OpCount(Q)]

CountAndLoadTaskUI(taskId, ctx) ==
    << [id |-> taskId, maximumCount |-> ctx.maximumCount, list |-> ctx.list] >>

loadItemsTask(s, owner, loader, indexes, cb) ==
    runOnMLThread(s, owner, "loadItems", loader, indexes, cb)

loadItemByIdTask(s, owner, loader, itemId, cb) ==
    runOnMLThread(s, owner, "loadItemById", loader, << itemId >>, cb)

LoadItemByIdTaskML(Q, itemId) == [item |-> OpLoadItemById(Q, itemId)]

LoadItemByIdTaskUI(taskId, ctx) ==
    IF ctx.item = NullItem THEN << >>
    ELSE << [id |-> taskId, item |-> ctx.item] >>


(***************************************************************************)
(* ListCache<std::unique_ptr<MLItem>> (util/listcache.hpp, not in the two  *)
(* files), as far as the model uses it: a count that is COUNT_UNINITIALIZED*)
(* until the first count arrives, the rows loaded so far, and loads made   *)
(* through the loader the cache owns.  Destroying the cache destroys its   *)
(* loader, which cancels the loader's tasks.                               *)
(***************************************************************************)
ChunkSize == 1

CacheNew(s, loader, limit, offset) ==
    Ev([s EXCEPT !.cache = [id |-> s.seq, loader |-> loader,
                            limit |-> limit, offset |-> offset,
                            queryCount |-> COUNT_UNINITIALIZED,
                            data |-> EmptyData],
                 !.seq = @ + 1],
       "cache.create", s.seq)

\* A cancelled task is taken off the queues: its lambdas, and with them the
\* loader's operation and the context they hold, are released.
CancelTask(task) ==
    [task EXCEPT !.st = "cancelled", !.loader = NoLoader, !.ctx = NoCtx]

CacheDestroy(s) ==
    IF s.cache.id = 0 THEN s
    ELSE Ev([s EXCEPT !.cache = NoCache,
                      !.tasks = [i \in 1..Len(s.tasks) |->
                          IF s.tasks[i].owner = s.cache.id
                             /\ s.tasks[i].st \in {"queued", "posted"}
                          THEN CancelTask(s.tasks[i])
                          ELSE s.tasks[i]]],
            "cache.destroy", s.cache.id)

CacheInitCount(s) ==
    countAndLoadTask(Ev(s, "cache.initCount", s.cache.id), s.cache.id,
                     s.cache.loader, 0, ChunkSize, "cacheCountAndLoad")

\* invalidate() drops the rows and the count, and counts again.
CacheInvalidate(s) ==
    countTask(Ev([s EXCEPT !.cache.data = EmptyData,
                           !.cache.queryCount = COUNT_UNINITIALIZED],
                 "cache.invalidate", s.cache.id),
              s.cache.id, s.cache.loader, "cacheCount")

CacheLoading(s, row) ==
    \E i \in 1..Len(s.tasks) :
        /\ s.tasks[i].owner = s.cache.id
        /\ s.tasks[i].kind = "load"
        /\ s.tasks[i].st \in {"queued", "posted"}
        /\ s.tasks[i].arg[1] = row

CacheRefer(s, row) ==
    LET s1 == Ev(s, "cache.refer", row)
    IN  IF row \in Rows /\ s.cache.data[row] = NullItem /\ ~CacheLoading(s, row)
        THEN loadTask(s1, s.cache.id, s.cache.loader, row, ChunkSize, "cacheLoad")
        ELSE s1

CacheGet(s, row) ==
    [Ev(s, "cache.get", row) EXCEPT
        !.ret = IF row \in Rows THEN s.cache.data[row] ELSE NullItem]

CacheFind(s, itemId) ==
    IF \E r \in Rows : s.cache.data[r] = itemId /\ itemId # NullItem
    THEN CHOOSE r \in Rows : s.cache.data[r] = itemId
    ELSE -1

CacheStore(s, offset, list) ==
    [s EXCEPT !.cache.data = [r \in Rows |->
        IF r >= offset /\ r - offset < Len(list) THEN list[r - offset + 1]
        ELSE @[r]]]

(***************************************************************************)
(* MLBaseModel.                                                            *)
(***************************************************************************)
\* The constructor's connections: mlChanged and countChanged are forwarded
\* to loadingChanged (mlbasemodel.cpp:50-51).
EmitMlChanged(s) == Ev(Ev(s, "mlChanged", 0), "loadingChanged", 0)

EmitCountChanged(s, n) == Ev(Ev(s, "countChanged", n), "loadingChanged", 0)

\* mlbasemodel.hpp (not in the two files): the model can build its cache once
\* it has a media library and QML has finished initialising it.
cachable(s) == s.ml # NoMl /\ ~s.qml

\* MLListCacheLoader::MLOp::MLOp: the query parameters the operation keeps.
MLOp(parentId, searchPattern, sort, sort_desc) ==
    [parent |-> parentId, pattern |-> searchPattern, sort |-> sort,
     desc |-> sort_desc]

\* createLoader() is implemented by the model subclasses: a loader on the
\* model's media library whose operation holds the model's current parameters.
createLoader(s) ==
    LET op == MLOp(s.parent, s.pattern, s.sort, s.desc)
    IN  [set |-> TRUE, ml |-> s.ml, parent |-> op.parent,
         pattern |-> op.pattern, sort |-> op.sort, desc |-> op.desc]

validateCache(s) ==
    IF s.cache.id # 0 THEN s
    ELSE IF ~cachable(s) THEN s
    ELSE Ev(CacheInitCount(CacheNew(s, createLoader(s), s.limit, s.offset)),
            "loadingChanged", 0)

resetCache(s) ==
    validateCache(Ev(CacheDestroy(Ev(s, "beginResetModel", 0)),
                     "endResetModel", 0))

invalidateCache(s) ==
    IF s.cache.id # 0
    THEN Ev(CacheInvalidate(s), "loadingChanged", 0)
    ELSE validateCache(s)

onResetRequested(s) == invalidateCache(s)

\* emit resetRequested(): the slot connected at mlbasemodel.cpp:48 runs
\* before emit returns.
EmitResetRequested(s) == onResetRequested(Ev(s, "resetRequested", 0))

onLocalSizeChanged(s, queryCount, maximumCount) ==
    Ev(EmitCountChanged(s, queryCount), "maximumCountChanged", maximumCount)

onCacheDataChanged(s, first) == Ev(s, "dataChanged", first)

(***************************************************************************)
(* The cache edited in place (ListCache, not in the two files).            *)
(***************************************************************************)
\* The slots and signals validateCache connects to the cache's row signals
\* (mlbasemodel.cpp:422-435, 456-467).
onCacheBeginRemoveRows(s, first) == Ev(s, "beginRemoveRows", first)

onCacheBeginMoveRows(s, first) == Ev(s, "beginMoveRows", first)

endRemoveRows(s) == Ev(s, "endRemoveRows", 0)

endMoveRows(s) == Ev(s, "endMoveRows", 0)

\* The rows first..last leave the cache: the rows after them move up and the
\* count, once known, shrinks and is announced by localSizeChanged.
CacheRemoveRows(s, first, last_) ==
    LET n == last_ - first + 1
        c == IF s.cache.queryCount = COUNT_UNINITIALIZED
             THEN COUNT_UNINITIALIZED
             ELSE IF s.cache.queryCount < n THEN 0
             ELSE s.cache.queryCount - n
        s1 == endRemoveRows(
                  [onCacheBeginRemoveRows(s, first) EXCEPT
                      !.cache.queryCount = c,
                      !.cache.data = [r \in Rows |->
                          IF r < first THEN @[r]
                          ELSE IF r + n \in Rows THEN @[r + n]
                          ELSE NullItem]])
    IN  IF c = COUNT_UNINITIALIZED THEN s1 ELSE onLocalSizeChanged(s1, c, c)

\* deleteItem(predicate): the first cached item the predicate accepts.
CacheDeleteItem(s, itemId) ==
    LET s1 == Ev(s, "cache.deleteItem", itemId)
        r  == CacheFind(s, itemId)
    IN  IF r = -1 THEN s1 ELSE CacheRemoveRows(s1, r, r)

CacheDeleteRange(s, first, last_) ==
    CacheRemoveRows(Ev(s, "cache.deleteRange", first), first, last_)

\* moveRange(first, last, to): the rows first..last are put before row "to".
CacheMoveRange(s, first, last_, to) ==
    LET d    == [i \in 1..MaxRows |-> s.cache.data[i - 1]]
        seg  == SubSeq(d, first + 1, last_ + 1)
        rest == SubSeq(d, 1, first) \o SubSeq(d, last_ + 2, MaxRows)
        p    == IF to > last_ THEN to - (last_ - first + 1) ELSE to
        new  == SubSeq(rest, 1, p) \o seg \o SubSeq(rest, p + 1, Len(rest))
    IN  endMoveRows(
            [onCacheBeginMoveRows(Ev(s, "cache.moveRange", first), first)
                EXCEPT !.cache.data = [r \in Rows |-> new[r + 1]]])

setMl(s, medialib) ==
    IF s.ml = medialib THEN s
    ELSE LET s1 == [s EXCEPT !.ml = medialib,
                             !.handle = IF @ = NoMl THEN medialib ELSE @]
         IN  EmitMlChanged(validateCache(s1))

\* The media libraries by number, for the trace of an operation.
MlIndex(ml) == IF ml = "ml1" THEN 1 ELSE IF ml = "ml2" THEN 2 ELSE 0

\* ~MLBaseModel() = default destroys the members: the loaders and the cache
\* go, with their tasks, and the deleter given to m_ml_event_handle in the
\* constructor runs when the handle is not null.
Destructor(s) ==
    LET s1 == [CacheDestroy(s) EXCEPT
                  !.tasks = [i \in 1..Len(@) |->
                      IF @[i].st \in {"queued", "posted"}
                      THEN CancelTask(@[i]) ELSE @[i]]]
    IN  IF s1.handle = NoMl THEN s1
        ELSE IF s1.ml = NoMl THEN [s1 EXCEPT !.fault = "assert"]
        ELSE Ev(s1, "unregisterEventListener", MlIndex(s1.ml))

classBegin(s) == [s EXCEPT !.qml = TRUE]

componentComplete(s) == validateCache([s EXCEPT !.qml = FALSE])

setSortOrder(s, desc) ==
    IF s.desc = desc THEN s
    ELSE Ev(resetCache([s EXCEPT !.desc = desc]), "sortOrderChanged", 0)

\* nameToCriteria() is implemented by the model subclasses: the criterion a
\* role name stands for, VLC_ML_SORTING_DEFAULT for a name that has none.
nameToCriteria(name) ==
    IF name = "title" THEN VLC_ML_SORTING_ALPHA ELSE VLC_ML_SORTING_DEFAULT

sortByColumn(s, name, order) ==
    LET sort == nameToCriteria(name)
        desc == (order = "DescendingOrder")
    IN  IF s.desc = desc /\ s.sort = sort THEN s
        ELSE resetCache([s EXCEPT !.desc = (order = "DescendingOrder"),
                                  !.sort = nameToCriteria(name)])

setParentId(s, parentId) ==
    Ev(resetCache([s EXCEPT !.parent = parentId]), "parentIdChanged", 0)

unsetParentId(s) ==
    Ev(resetCache([s EXCEPT !.parent = 0]), "parentIdChanged", 0)

setSearchPattern(s, pattern) ==
    LET patternToApply == IF Len(pattern.text) = 0 THEN QStringNull ELSE pattern
    IN  IF QStringEqual(patternToApply, s.pattern) THEN s
        ELSE resetCache([s EXCEPT !.pattern = patternToApply])

setSortCriteria(s, criteria) ==
    LET sort == nameToCriteria(criteria)
    IN  IF s.sort = sort THEN s
        ELSE Ev(resetCache([s EXCEPT !.sort = sort]), "sortCriteriaChanged", 0)

unsetSortCriteria(s) ==
    IF s.sort = VLC_ML_SORTING_DEFAULT THEN s
    ELSE Ev(resetCache([s EXCEPT !.sort = VLC_ML_SORTING_DEFAULT]),
            "sortCriteriaChanged", 0)

\* A slip that stores the new limit and leaves the cache as it is.
setLimit_keepsCache(s, limit) ==
    IF s.limit = limit THEN s
    ELSE Ev([s EXCEPT !.limit = limit], "limitChanged", 0)

setLimit(s, limit) ==
    IF s.limit = limit THEN s
    ELSE Ev(resetCache([s EXCEPT !.limit = limit]), "limitChanged", 0)

\* A slip that drops the test "if (m_offset == offset) return;".
setOffset_unguarded(s, offset) ==
    Ev(resetCache([s EXCEPT !.offset = offset]), "offsetChanged", 0)

setOffset(s, offset) ==
    IF s.offset = offset THEN s
    ELSE Ev(resetCache([s EXCEPT !.offset = offset]), "offsetChanged", 0)

rowCount(s, parentIsValid) ==
    IF s.cache.id = 0 \/ parentIsValid THEN 0
    ELSE s.cache.queryCount

getCount(s) ==
    IF s.cache.id = 0 \/ s.cache.queryCount = COUNT_UNINITIALIZED THEN 0
    ELSE s.cache.queryCount

loading(s) ==
    ~(s.ml # NoMl /\ s.cache.id # 0 /\ s.cache.queryCount # COUNT_UNINITIALIZED)

\* A slip that forgets the upper bound "signedidx >= count".
item_unbounded(s, signedidx) ==
    IF s.cache.id = 0 THEN [s EXCEPT !.ret = NullItem]
    ELSE LET count == s.cache.queryCount
         IN  IF count = 0 \/ signedidx < 0
             THEN [s EXCEPT !.ret = NullItem]
             ELSE CacheGet(CacheRefer(s, signedidx), signedidx)

item(s, signedidx) ==
    IF s.cache.id = 0 THEN [s EXCEPT !.ret = NullItem]
    ELSE LET count == s.cache.queryCount
         IN  IF count = 0 \/ signedidx < 0 \/ signedidx >= count
             THEN [s EXCEPT !.ret = NullItem]
             ELSE CacheGet(CacheRefer(s, signedidx), signedidx)

\* itemRoleData() is implemented by the subclasses: the variant it returns
\* is named by the item it describes; the empty QVariant is named NullItem.
itemRoleData(mlItem) == mlItem

data(s, row) ==
    LET s1 == item(s, row)
    IN  IF s1.ret # NullItem THEN [s1 EXCEPT !.ret = itemRoleData(s1.ret)]
        ELSE [s1 EXCEPT !.ret = NullItem]

loadItems(s, indexes, cb) ==
    LET s1 == IF ~s.itemLoader.set
              THEN [s EXCEPT !.itemLoader = createLoader(s)] ELSE s
    IN  loadItemsTask(s1, 0, s1.itemLoader, indexes, cb)

\* getData up to the return of loadItems; the assignment to *requestId is
\* the next step of the UI thread (GetDataStore).
getData(s, indexes, isCallable) ==
    IF ~isCallable THEN s
    ELSE loadItems(s, indexes, "getData")

addAndPlay(s, list) == loadItems(s, list, "play")

\* The completion callback built in addAndPlay: the ids it hands to
\* MediaLib::addAndPlay, an invalid QVariant (NullItem) for a null item.
AddAndPlayCallback(s, items) ==
    IF s.ml = NoMl THEN << >>
    ELSE << [i \in 1..Len(items) |-> items[i]] >>

\* A slip that drops the assignment "*requestId = loadItems(indx, cb)".
GetDataStoreRequestId_dropped(task, id) == task

GetDataStoreRequestId(task, id) == [task EXCEPT !.req = id]

\* The completion callback built in getData, called with (id, items): the
\* arrays it hands to the JS callback, one map per item, empty for a null one.
GetDataCallback(task, id, items, jsEngine) ==
    IF ~jsEngine \/ task.req # id THEN << >>
    ELSE << [i \in 1..Len(task.arg) |-> items[i]] >>

\* A slip that drops the test "if (!item) return".
updateItemInCache_loadsAbsent(s, mlid) ==
    IF s.cache.id = 0 THEN EmitResetRequested(s)
    ELSE LET s1 == IF ~s.itemLoader.set
                   THEN [s EXCEPT !.itemLoader = createLoader(s)] ELSE s
         IN  loadItemByIdTask(s1, 0, s1.itemLoader, mlid, "updateItem")

updateItemInCache(s, mlid) ==
    IF s.cache.id = 0 THEN EmitResetRequested(s)
    ELSE IF CacheFind(s, mlid) = -1 THEN s
    ELSE LET s1 == IF ~s.itemLoader.set
                   THEN [s EXCEPT !.itemLoader = createLoader(s)] ELSE s
         IN  loadItemByIdTask(s1, 0, s1.itemLoader, mlid, "updateItem")

deleteItemInCache(s, mlid) ==
    IF s.cache.id = 0 THEN EmitResetRequested(s)
    ELSE CacheDeleteItem(s, mlid)

moveRangeInCache(s, first, last_, to) ==
    IF s.cache.id = 0 THEN EmitResetRequested(s)
    ELSE CacheMoveRange(s, first, last_, to)

deleteRangeInCache(s, first, last_) ==
    IF s.cache.id = 0 THEN EmitResetRequested(s)
    ELSE CacheDeleteRange(s, first, last_)

\* The completion callback built in updateItemInCache: m_cache->updateItem.
UpdateItemCallback(s, itemId) ==
    IF s.cache.id = 0 THEN [s EXCEPT !.fault = "null_cache"]
    ELSE IF CacheFind(s, itemId) = -1 THEN s
    ELSE onCacheDataChanged(s, CacheFind(s, itemId))

\* A slip that leaves m_need_reset set after the emit of the first case.
onVlcMlEvent_keepsNeed(s, event, mlIdle) ==
    LET s1 == IF event.type = "BACKGROUND_IDLE_CHANGED" /\ event.idle /\ s.need
              THEN EmitResetRequested(s)
              ELSE s
    IN  IF s1.ml # NoMl /\ mlIdle /\ s1.need
        THEN [EmitResetRequested(s1) EXCEPT !.need = FALSE]
        ELSE s1

\* onVlcMlEvent(const MLEvent&).  mlIdle is what m_mediaLib->idle() answers.
onVlcMlEvent(s, event, mlIdle) ==
    LET s1 == IF event.type = "BACKGROUND_IDLE_CHANGED"
              THEN IF event.idle /\ s.need
                   THEN [EmitResetRequested(s) EXCEPT !.need = FALSE]
                   ELSE s
              ELSE IF event.type = "MEDIA_THUMBNAIL_GENERATED"
              THEN IF event.success /\ s.cache.id # 0
                      /\ s.cache.queryCount # COUNT_UNINITIALIZED
                      /\ CacheFind(s, event.id) # -1
                   THEN Ev(s, "thumbnailUpdated", CacheFind(s, event.id))
                   ELSE s
              ELSE s
    IN  IF s1.ml # NoMl /\ mlIdle /\ s1.need
        THEN [EmitResetRequested(s1) EXCEPT !.need = FALSE]
        ELSE s1


(***************************************************************************)
(* modules/video_output/win32/common.c, as built for the desktop           *)
(* (VLC_WINSTORE_APP is 0) by a display module that is none of direct3d9,  *)
(* direct3d11 and glwin32, whose #ifdef blocks are left out.               *)
(*                                                                         *)
(* Geometry.  A RECT is [left, top, right, bottom]; the place of a window  *)
(* is an area [x, y, w, h]: its origin relative to its parent and its      *)
(* outer size.                                                             *)
(***************************************************************************)
VLC_SUCCESS == "VLC_SUCCESS"
VLC_EGENERIC == "VLC_EGENERIC"
NULL == "NULL"

Max0(n) == IF n < 0 THEN 0 ELSE n

RectEmpty == [left |-> 0, top |-> 0, right |-> 0, bottom |-> 0]

RECTWidth(r) == r.right - r.left

RECTHeight(r) == r.bottom - r.top

EqualRect(r1, r2) ==
    /\ r1.left = r2.left /\ r1.right = r2.right
    /\ r1.top = r2.top /\ r1.bottom = r2.bottom

OffsetRect(r, dx, dy) ==
    [left |-> r.left + dx, top |-> r.top + dy,
     right |-> r.right + dx, bottom |-> r.bottom + dy]

Area(x, y, w, h) == [x |-> x, y |-> y, w |-> w, h |-> h]

NoArea == Area(0, 0, 0, 0)

\* The places a user or an embedding application can give a window.
Areas == [x : 0..MaxPos, y : {0}, w : 1..MaxW, h : 1..MaxH]

\* The monitor is larger than every place above.
Monitor == Area(0, 0, MaxW + 2, MaxH + 2)

\* vout_display_cfg_t, as far as common.c and the picture placement read it.
Cfgs == [width : 1..MaxW, height : 1..MaxH, is_fullscreen : BOOLEAN]

CfgZero == [width |-> 0, height |-> 0, is_fullscreen |-> FALSE]

\* vd->source: the visible size of the video.
Source == [i_visible_width |-> 1, i_visible_height |-> 1]

(***************************************************************************)
(* The Win32 windows.  A window has a style, a show state, a place and the *)
(* place it goes back to when restored (rcNormalPosition).  hparent is the *)
(* embedding application's window: only its place is known.                *)
(***************************************************************************)
FULLSCREEN_STYLE == "WS_CLIPCHILDREN|WS_VISIBLE"

NoWindow == [style |-> "none", showCmd |-> "SW_SHOWNORMAL", visible |-> FALSE,
             pos |-> NoArea, rcNormalPosition |-> NoArea, parent |-> NULL,
             topmost |-> FALSE]

Window(style, area, parent, visible) ==
    [style |-> style, showCmd |-> "SW_SHOWNORMAL", visible |-> visible,
     pos |-> area, rcNormalPosition |-> area, parent |-> parent,
     topmost |-> FALSE]

NoWindows == [hwnd |-> NoWindow, hvideownd |-> NoWindow, hfswnd |-> NoWindow,
              hparent |-> NoArea, rootVisible |-> FALSE, foreground |-> NULL]

NoPlacement == [showCmd |-> "none", rcNormalPosition |-> NoArea]

\* The width of the frame the style puts around the client area.
Frame(style) == IF style = "WS_OVERLAPPEDWINDOW" THEN 1 ELSE 0

\* AdjustWindowRect: the outer size of a window whose client area is cx * cy.
AdjustWindowRect(cx, cy, style) ==
    [left |-> 0, top |-> 0, right |-> cx + Frame(style),
     bottom |-> cy + Frame(style)]

GetClientRect(ws, h) ==
    IF h = NULL THEN RectEmpty
    ELSE IF h = "hparent"
    THEN [left |-> 0, top |-> 0, right |-> ws.hparent.w,
          bottom |-> ws.hparent.h]
    ELSE [left |-> 0, top |-> 0,
          right |-> Max0(ws[h].pos.w - Frame(ws[h].style)),
          bottom |-> Max0(ws[h].pos.h - Frame(ws[h].style))]

\* ClientToScreen of the point (0, 0).
ClientToScreen(ws, h) ==
    IF h = NULL THEN [x |-> 0, y |-> 0]
    ELSE IF h = "hparent" THEN [x |-> ws.hparent.x, y |-> ws.hparent.y]
    ELSE LET p == ws[h].parent
             o == IF p = "hparent"
                  THEN [x |-> ws.hparent.x, y |-> ws.hparent.y]
                  ELSE IF p = "hfswnd"
                  THEN [x |-> ws.hfswnd.pos.x, y |-> ws.hfswnd.pos.y]
                  ELSE [x |-> 0, y |-> 0]
         IN  [x |-> o.x + ws[h].pos.x, y |-> o.y + ws[h].pos.y]

GetWindowPlacement(ws, h) ==
    IF h = NULL THEN NoPlacement
    ELSE [showCmd |-> ws[h].showCmd,
          rcNormalPosition |-> ws[h].rcNormalPosition]

(***************************************************************************)
(* The display as one record, so that the statements of a function can be  *)
(* composed in the order the code runs them: sys, the windows, the event   *)
(* thread, and what the running call has done so far: calls, the Win32 and *)
(* helper calls it made, each with the handle or flag it was made with;    *)
(* ret, its return value; placement, what it passed to SetWindowPlacement. *)
(***************************************************************************)
Vd == [sys |-> sys, windows |-> windows, event |-> event_thread, calls |-> << >>,
       ret |-> VLC_SUCCESS, placement |-> NoPlacement]

Call(w, name, arg) == [w EXCEPT !.calls = Append(@, << name, arg >>)]

Called(calls, name, arg) ==
    \E i \in 1..Len(calls) : calls[i] = << name, arg >>

CallCount(calls, name) ==
    Cardinality({i \in 1..Len(calls) : calls[i][1] = name})

SetWindowPos(w, h, after, x, y, cx, cy, flags) ==
    LET w1  == Call(w, "SetWindowPos", h)
    IN  IF h = NULL THEN w1
        ELSE LET old == w.windows[h]
                 pos == [x |-> IF "SWP_NOMOVE" \in flags THEN old.pos.x ELSE x,
                         y |-> IF "SWP_NOMOVE" \in flags THEN old.pos.y ELSE y,
                         w |-> IF "SWP_NOSIZE" \in flags THEN old.pos.w ELSE cx,
                         h |-> IF "SWP_NOSIZE" \in flags THEN old.pos.h ELSE cy]
             IN  [w1 EXCEPT !.windows[h] =
                    [old EXCEPT
                       !.pos = pos,
                       !.rcNormalPosition =
                           IF old.showCmd = "SW_SHOWNORMAL" THEN pos ELSE @,
                       !.visible = @ \/ ("SWP_SHOWWINDOW" \in flags),
                       !.topmost = IF after = "HWND_TOPMOST" THEN TRUE
                                   ELSE IF after = "HWND_NOTOPMOST" THEN FALSE
                                   ELSE @]]

ShowWindow(w, h, nCmdShow) ==
    LET w1 == Call(w, "ShowWindow", h)
    IN  IF h = NULL THEN w1
        ELSE IF h = "root"
        THEN [w1 EXCEPT !.windows.rootVisible = (nCmdShow # "SW_HIDE")]
        ELSE LET old == w.windows[h]
             IN  [w1 EXCEPT !.windows[h] =
                    IF nCmdShow = "SW_HIDE" THEN [old EXCEPT !.visible = FALSE]
                    ELSE IF nCmdShow = "SW_SHOWMAXIMIZED"
                    THEN [old EXCEPT !.visible = TRUE,
                                     !.showCmd = "SW_SHOWMAXIMIZED",
                                     !.pos = Monitor]
                    ELSE IF nCmdShow = "SW_SHOWNORMAL"
                    THEN [old EXCEPT !.visible = TRUE,
                                     !.showCmd = "SW_SHOWNORMAL",
                                     !.pos = old.rcNormalPosition]
                    ELSE [old EXCEPT !.visible = TRUE]]

SetWindowPlacement(w, h, wp) ==
    LET w1 == [Call(w, "SetWindowPlacement", h) EXCEPT !.placement = wp]
    IN  IF h = NULL THEN w1
        ELSE [w1 EXCEPT !.windows[h] =
                [w.windows[h] EXCEPT
                   !.showCmd = wp.showCmd,
                   !.rcNormalPosition = wp.rcNormalPosition,
                   !.visible = TRUE,
                   !.pos = IF wp.showCmd = "SW_SHOWMAXIMIZED" THEN Monitor
                           ELSE wp.rcNormalPosition]]

SetWindowLong(w, h, style) ==
    LET w1 == Call(w, "SetWindowLong", h)
    IN  IF h = NULL THEN w1 ELSE [w1 EXCEPT !.windows[h].style = style]

\* A window cannot become its own parent: the call then fails.
SetParent(w, child, newParent) ==
    LET w1 == Call(w, "SetParent", child)
    IN  IF child = NULL \/ child = newParent THEN w1
        ELSE [w1 EXCEPT !.windows[child].parent = newParent]

SetForegroundWindow(w, h) ==
    [Call(w, "SetForegroundWindow", h) EXCEPT !.windows.foreground = h]

\* GetAncestor(sys->hparent, GA_ROOT): the top-level window of the embedding
\* application.
GetAncestor(h) == "root"

(***************************************************************************)
(* The event thread (events.c, not in the two files): it creates the       *)
(* windows, keeps the window style and the last known window area, and     *)
(* raises has_moved when a message reports a move or a resize.             *)
(***************************************************************************)
NoEvent == [style |-> "none", window_area |-> RectEmpty, has_moved |-> FALSE]

\* What EventThreadCreate and EventThreadStart can answer: a failure, or the
\* handles of the windows: a top-level window of the display's own, or a
\* child window of the embedding application's window (parent_window and its
\* handle hparent) together with the fullscreen window hfswnd.
EventStarts ==
    [result : {"create_failed", "start_failed"}, parent_window : {NULL},
     hparent : {NULL}, hfswnd : {NULL}, style : {"none"}, area : {NoArea}]
    \cup [result : {"started"}, parent_window : {NULL}, hparent : {NULL},
          hfswnd : {NULL}, style : {"WS_OVERLAPPEDWINDOW", "WS_POPUP"},
          area : {NoArea}]
    \cup [result : {"started"}, parent_window : {"parent_window"},
          hparent : {"hparent"}, hfswnd : {"hfswnd"},
          style : {"WS_CHILD"}, area : Areas]

EventThreadStart(w, cfg, start) ==
    LET outer == AdjustWindowRect(cfg.width, cfg.height, start.style)
        place == IF start.hparent # NULL
                 THEN Area(0, 0, start.area.w, start.area.h)
                 ELSE Area(cfg.x, cfg.y, outer.right, outer.bottom)
    IN  [w EXCEPT
           !.event = [style |-> start.style, window_area |-> RectEmpty,
                      has_moved |-> FALSE],
           !.windows =
               [hwnd |-> Window(start.style, place,
                                IF start.hparent # NULL THEN "hparent"
                                ELSE "desktop", TRUE),
                hvideownd |-> Window("WS_CHILD",
                                     Area(0, 0, cfg.width, cfg.height),
                                     "hwnd", FALSE),
                hfswnd |-> IF start.hfswnd # NULL
                           THEN Window("WS_POPUP", Monitor, "desktop", FALSE)
                           ELSE NoWindow,
                hparent |-> start.area,
                rootVisible |-> (start.hparent # NULL),
                foreground |-> NULL]]

EventThreadUpdateWindowPosition(w, area) ==
    [Call(w, "EventThreadUpdateWindowPosition", "event") EXCEPT
        !.event.window_area = area,
        !.ret = IF EqualRect(w.event.window_area, area) THEN "false"
                ELSE "true"]

EventThreadUpdateSourceAndPlace(w, place) ==
    Call(w, "EventThreadUpdateSourceAndPlace", "event")

EventThreadGetAndResetHasMoved(w) ==
    [Call(w, "EventThreadGetAndResetHasMoved", "event") EXCEPT
        !.event.has_moved = FALSE,
        !.ret = IF w.event.has_moved THEN "true" ELSE "false"]

EventThreadGetWindowStyle(w) == w.event.style

\* vout_display_PlacePicture (vout display core, not in the two files): the
\* picture keeps the shape of the source, is scaled to the largest size that
\* fits the display, and is centred.
Div2(n) == IF n >= 0 THEN n \div 2 ELSE -((-n) \div 2)

vout_display_PlacePicture(source, cfg) ==
    LET scale  == Min(cfg.width \div source.i_visible_width,
                      cfg.height \div source.i_visible_height)
        width  == scale * source.i_visible_width
        height == scale * source.i_visible_height
    IN  [x |-> Div2(cfg.width - width), y |-> Div2(cfg.height - height),
         width |-> width, height |-> height]

(***************************************************************************)
(* common.c.                                                               *)
(***************************************************************************)
\* The display's private data before CommonInit: the display modules
\* allocate it zeroed (calloc), and CommonInit leaves parent_window and
\* event as they are on a windowless display.
SysZero ==
    [hwnd |-> NULL, hvideownd |-> NULL, hparent |-> NULL, hfswnd |-> NULL,
     parent_window |-> NULL, event |-> NULL, b_windowless |-> FALSE,
     rect_parent |-> RectEmpty, vdcfg |-> CfgZero, rect_dest |-> RectEmpty,
     rect_dest_changed |-> FALSE, is_first_placement |-> FALSE,
     is_on_top |-> FALSE]

\* static bool GetRect(sys, out): the answer and the rectangle.
GetRect(w) ==
    IF w.sys.b_windowless THEN [ok |-> FALSE, rect |-> RectEmpty]
    ELSE [ok |-> w.sys.hwnd # NULL,
          rect |-> GetClientRect(w.windows, w.sys.hwnd)]

CommonInit(w, b_windowless, vdcfg, start) ==
    LET w0 == [w EXCEPT !.sys.hwnd = NULL, !.sys.hvideownd = NULL,
                        !.sys.hparent = NULL, !.sys.hfswnd = NULL,
                        !.sys.rect_dest_changed = FALSE,
                        !.sys.b_windowless = b_windowless,
                        !.sys.is_first_placement = TRUE,
                        !.sys.is_on_top = FALSE,
                        !.sys.rect_parent = RectEmpty,
                        !.sys.vdcfg = vdcfg]
    IN  IF b_windowless THEN [w0 EXCEPT !.ret = VLC_SUCCESS]
        ELSE IF start.result = "create_failed"
        THEN [w0 EXCEPT !.ret = VLC_EGENERIC]
        ELSE IF start.result = "start_failed"
        THEN [w0 EXCEPT !.sys.event = "event", !.ret = VLC_EGENERIC]
        ELSE LET cfg == [x |-> 0, y |-> 0, width |-> vdcfg.width,
                         height |-> vdcfg.height]
                 w1  == EventThreadStart(w0, cfg, start)
             IN  [w1 EXCEPT !.sys.event = "event",
                            !.sys.parent_window = start.parent_window,
                            !.sys.hparent = start.hparent,
                            !.sys.hwnd = "hwnd",
                            !.sys.hvideownd = "hvideownd",
                            !.sys.hfswnd = start.hfswnd,
                            !.ret = VLC_SUCCESS]

\* The taskbar thumbnail is set through ITaskbarList3; no window changes.
CommonChangeThumbnailClip(w, show) ==
    Call(w, "SetThumbnailClip", IF show THEN "show" ELSE "hide")

\* A slip that writes "sys->rect_dest_changed = ..." for "|=".
UpdateRects_assignsFlag(w, is_forced) ==
    LET w0    == Call(w, "UpdateRects",
                      IF is_forced THEN "forced" ELSE "not_forced")
        got   == GetRect(w)
        point == IF w.sys.b_windowless THEN [x |-> 0, y |-> 0]
                 ELSE ClientToScreen(w.windows, w.sys.hwnd)
        rect  == IF w.sys.b_windowless
                 THEN [left |-> 0, top |-> 0,
                       right |-> Source.i_visible_width,
                       bottom |-> Source.i_visible_height]
                 ELSE OffsetRect(got.rect, point.x, point.y)
        w1    == IF w.sys.b_windowless THEN w0
                 ELSE EventThreadUpdateWindowPosition(w0, rect)
        moved_or_resized == ~w.sys.b_windowless /\ w1.ret = "true"
    IN  IF ~w.sys.b_windowless /\ ~got.ok THEN w0
        ELSE IF ~is_forced /\ ~moved_or_resized THEN w1
        ELSE LET place_cfg == [w.sys.vdcfg EXCEPT !.width = RECTWidth(rect),
                                                  !.height = RECTHeight(rect)]
                 place == vout_display_PlacePicture(Source, place_cfg)
                 w2 == IF w.sys.b_windowless THEN w1
                       ELSE [SetWindowPos(
                                EventThreadUpdateSourceAndPlace(w1, place),
                                w.sys.hvideownd, "0", place.x, place.y,
                                place.width, place.height,
                                IF w.sys.is_first_placement
                                THEN {"SWP_NOCOPYBITS", "SWP_NOZORDER",
                                      "SWP_ASYNCWINDOWPOS", "SWP_SHOWWINDOW"}
                                ELSE {"SWP_NOCOPYBITS", "SWP_NOZORDER",
                                      "SWP_ASYNCWINDOWPOS"})
                             EXCEPT !.sys.is_first_placement = FALSE]
                 before_rect_dest == w.sys.rect_dest
                 rect_dest ==
                     [left |-> point.x + place.x,
                      right |-> point.x + place.x + place.width,
                      top |-> point.y + place.y,
                      bottom |-> point.y + place.y + place.height]
                 w3 == [w2 EXCEPT
                          !.sys.rect_dest = rect_dest,
                          !.sys.rect_dest_changed =
                              ~EqualRect(before_rect_dest, rect_dest)]
             IN  CommonChangeThumbnailClip(w3, TRUE)

UpdateRects(w, is_forced) ==
    LET w0    == Call(w, "UpdateRects",
                      IF is_forced THEN "forced" ELSE "not_forced")
        got   == GetRect(w)
        point == IF w.sys.b_windowless THEN [x |-> 0, y |-> 0]
                 ELSE ClientToScreen(w.windows, w.sys.hwnd)
        rect  == IF w.sys.b_windowless
                 THEN [left |-> 0, top |-> 0,
                       right |-> Source.i_visible_width,
                       bottom |-> Source.i_visible_height]
                 ELSE OffsetRect(got.rect, point.x, point.y)
        w1    == IF w.sys.b_windowless THEN w0
                 ELSE EventThreadUpdateWindowPosition(w0, rect)
        moved_or_resized == ~w.sys.b_windowless /\ w1.ret = "true"
    IN  IF ~w.sys.b_windowless /\ ~got.ok THEN w0
        ELSE IF ~is_forced /\ ~moved_or_resized THEN w1
        ELSE LET place_cfg == [w.sys.vdcfg EXCEPT !.width = RECTWidth(rect),
                                                  !.height = RECTHeight(rect)]
                 place == vout_display_PlacePicture(Source, place_cfg)
                 w2 == IF w.sys.b_windowless THEN w1
                       ELSE [SetWindowPos(
                                EventThreadUpdateSourceAndPlace(w1, place),
                                w.sys.hvideownd, "0", place.x, place.y,
                                place.width, place.height,
                                IF w.sys.is_first_placement
                                THEN {"SWP_NOCOPYBITS", "SWP_NOZORDER",
                                      "SWP_ASYNCWINDOWPOS", "SWP_SHOWWINDOW"}
                                ELSE {"SWP_NOCOPYBITS", "SWP_NOZORDER",
                                      "SWP_ASYNCWINDOWPOS"})
                             EXCEPT !.sys.is_first_placement = FALSE]
                 before_rect_dest == w.sys.rect_dest
                 rect_dest ==
                     [left |-> point.x + place.x,
                      right |-> point.x + place.x + place.width,
                      top |-> point.y + place.y,
                      bottom |-> point.y + place.y + place.height]
                 w3 == [w2 EXCEPT
                          !.sys.rect_dest = rect_dest,
                          !.sys.rect_dest_changed =
                              @ \/ ~EqualRect(before_rect_dest, rect_dest)]
             IN  CommonChangeThumbnailClip(w3, TRUE)

\* CommonManage, the block "if (sys->hparent)" with the store left out.
CommonManageParent_unsaved(w) ==
    IF w.sys.hparent = NULL THEN w
    ELSE LET point == ClientToScreen(w.windows, w.sys.hparent)
             rect_parent == OffsetRect(GetClientRect(w.windows, w.sys.hparent),
                                       point.x, point.y)
         IN  IF ~EqualRect(rect_parent, w.sys.rect_parent)
             THEN UpdateRects(
                      SetWindowPos(w, w.sys.hwnd, "0", 0, 0,
                                   RECTWidth(rect_parent),
                                   RECTHeight(rect_parent), {"SWP_NOZORDER"}),
                      TRUE)
             ELSE w

\* CommonManage, the block "if (sys->hparent)".
CommonManageParent(w) ==
    IF w.sys.hparent = NULL THEN w
    ELSE LET point == ClientToScreen(w.windows, w.sys.hparent)
             rect_parent == OffsetRect(GetClientRect(w.windows, w.sys.hparent),
                                       point.x, point.y)
         IN  IF ~EqualRect(rect_parent, w.sys.rect_parent)
             THEN UpdateRects(
                      SetWindowPos([w EXCEPT !.sys.rect_parent = rect_parent],
                                   w.sys.hwnd, "0", 0, 0,
                                   RECTWidth(rect_parent),
                                   RECTHeight(rect_parent), {"SWP_NOZORDER"}),
                      TRUE)
             ELSE w

CommonManage(w) ==
    IF w.sys.b_windowless THEN w
    ELSE LET w1 == EventThreadGetAndResetHasMoved(CommonManageParent(w))
         IN  IF w1.ret = "true" THEN UpdateRects(w1, FALSE) ELSE w1

\* "HWND hwnd = sys->hparent && sys->hfswnd ? sys->hfswnd : sys->hwnd"
FullscreenHwnd(s) ==
    IF s.hparent # NULL /\ s.hfswnd # NULL THEN s.hfswnd ELSE s.hwnd

\* CommonControlSetFullscreen from "HWND hwnd = ..." on: the window the
\* request acts on, then the enter or the leave branch.
SetFullscreenWindow(w, is_fullscreen) ==
    LET hwnd == FullscreenHwnd(w.sys)
        window_placement == GetWindowPlacement(w.windows, hwnd)
    IN  IF is_fullscreen
        THEN LET w1 == SetWindowLong(w, hwnd, FULLSCREEN_STYLE)
                 w2 == IF w.sys.hparent # NULL
                       THEN SetWindowPos(w1, hwnd, "0", Monitor.x, Monitor.y,
                                         Monitor.w, Monitor.h,
                                         {"SWP_NOZORDER", "SWP_FRAMECHANGED"})
                       ELSE ShowWindow(w1, hwnd, "SW_SHOWMAXIMIZED")
                 w3 == IF w.sys.hparent # NULL
                       THEN LET rect == GetClientRect(w2.windows, hwnd)
                            IN  ShowWindow(
                                  SetWindowPos(
                                    SetParent(w2, w.sys.hwnd, hwnd),
                                    w.sys.hwnd, "0", 0, 0, rect.right,
                                    rect.bottom,
                                    {"SWP_NOZORDER", "SWP_FRAMECHANGED"}),
                                  GetAncestor(w.sys.hparent), "SW_HIDE")
                       ELSE w2
             IN  [SetForegroundWindow(w3, hwnd) EXCEPT !.ret = VLC_SUCCESS]
        ELSE LET w1 == SetWindowLong(w, hwnd, EventThreadGetWindowStyle(w))
                 w2 == IF w.sys.hparent # NULL
                       THEN LET rect == GetClientRect(w1.windows,
                                                      w.sys.hparent)
                            IN  ShowWindow(
                                  SetForegroundWindow(
                                    ShowWindow(
                                      SetWindowPos(
                                        SetParent(w1, w.sys.hwnd,
                                                  w.sys.hparent),
                                        w.sys.hwnd, "0", 0, 0, rect.right,
                                        rect.bottom,
                                        {"SWP_NOZORDER", "SWP_FRAMECHANGED"}),
                                      GetAncestor(w.sys.hparent), "SW_SHOW"),
                                    w.sys.hparent),
                                  hwnd, "SW_HIDE")
                       ELSE ShowWindow(
                              SetWindowPlacement(w1, hwnd, window_placement),
                              hwnd, "SW_SHOWNORMAL")
             IN  [w2 EXCEPT !.ret = VLC_SUCCESS]

\* A slip that drops the test "if (sys->parent_window)".
CommonControlSetFullscreen_unguarded(w, is_fullscreen) ==
    IF w.sys.b_windowless THEN [w EXCEPT !.ret = VLC_SUCCESS]
    ELSE SetFullscreenWindow(w, is_fullscreen)

CommonControlSetFullscreen(w, is_fullscreen) ==
    IF w.sys.parent_window # NULL THEN [w EXCEPT !.ret = VLC_EGENERIC]
    ELSE IF w.sys.b_windowless THEN [w EXCEPT !.ret = VLC_SUCCESS]
    ELSE SetFullscreenWindow(w, is_fullscreen)

\* The queries of CommonControl; OTHER stands for every query that has no
\* case of its own.
CfgQueries == {"VOUT_DISPLAY_CHANGE_DISPLAY_FILLED", "VOUT_DISPLAY_CHANGE_ZOOM",
               "VOUT_DISPLAY_CHANGE_SOURCE_ASPECT",
               "VOUT_DISPLAY_CHANGE_SOURCE_CROP"}

\* A slip that resizes the window on every VOUT_DISPLAY_CHANGE_DISPLAY_SIZE.
DisplaySizeResizesWindow_always(w, cfg) == TRUE

\* "if (!cfg->is_fullscreen && !sys->b_windowless)"
DisplaySizeResizesWindow(w, cfg) == ~cfg.is_fullscreen /\ ~w.sys.b_windowless

\* a: the query and its argument; unreachable: what vlc_assert_unreachable()
\* does in the build, "assert" (the assertion aborts) or "default" (compiled
\* out, the switch goes on into default).
CommonControl(w, a, unreachable) ==
    IF a.query \in CfgQueries
    THEN [UpdateRects([w EXCEPT !.sys.vdcfg = a.cfg], TRUE)
            EXCEPT !.ret = VLC_SUCCESS]
    ELSE IF a.query = "VOUT_DISPLAY_CHANGE_DISPLAY_SIZE"
    THEN LET rect_window == AdjustWindowRect(a.cfg.width, a.cfg.height,
                                             EventThreadGetWindowStyle(w))
             w1 == IF DisplaySizeResizesWindow(w, a.cfg)
                   THEN SetWindowPos(w, w.sys.hwnd, "0", 0, 0,
                                     RECTWidth(rect_window),
                                     RECTHeight(rect_window), {"SWP_NOMOVE"})
                   ELSE w
         IN  [UpdateRects([w1 EXCEPT !.sys.vdcfg = a.cfg], FALSE)
                EXCEPT !.ret = VLC_SUCCESS]
    ELSE IF a.query = "VOUT_DISPLAY_CHANGE_WINDOW_STATE"
    THEN LET is_on_top == a.above
             topmost == w.sys.hwnd # NULL /\ w.windows.hwnd.topmost
             w1 == IF is_on_top /\ ~topmost
                   THEN SetWindowPos(Call(w, "CheckMenuItem", "MFS_CHECKED"),
                                     w.sys.hwnd, "HWND_TOPMOST", 0, 0, 0, 0,
                                     {"SWP_NOSIZE", "SWP_NOMOVE"})
                   ELSE IF ~is_on_top /\ topmost
                   THEN SetWindowPos(Call(w, "CheckMenuItem", "MFS_UNCHECKED"),
                                     w.sys.hwnd, "HWND_NOTOPMOST", 0, 0, 0, 0,
                                     {"SWP_NOSIZE", "SWP_NOMOVE"})
                   ELSE w
         IN  [w1 EXCEPT !.sys.is_on_top = is_on_top, !.ret = VLC_SUCCESS]
    ELSE IF a.query = "VOUT_DISPLAY_CHANGE_FULLSCREEN"
    THEN LET w1 == CommonControlSetFullscreen(w, a.fs)
         IN  IF w1.ret # VLC_SUCCESS THEN [w1 EXCEPT !.ret = VLC_EGENERIC]
             ELSE [UpdateRects(w1, FALSE) EXCEPT !.ret = VLC_SUCCESS]
    ELSE IF a.query = "VOUT_DISPLAY_RESET_PICTURES" /\ unreachable = "assert"
    THEN [w EXCEPT !.ret = "abort"]
    ELSE [w EXCEPT !.ret = VLC_EGENERIC]

NoLast == [op |-> "none", ret |-> VLC_SUCCESS, calls |-> << >>,
           placement |-> NoPlacement, restores |-> NoPlacement]

\* The Win32 helper is not part of the run.
WinOff ==
    /\ sys = SysZero
    /\ windows = NoWindows
    /\ event_thread = NoEvent
    /\ w_pc = "off"
    /\ w_last = NoLast
    /\ w_fs = NoPlacement

\* The display module has allocated sys and is about to call CommonInit.
WinNew ==
    /\ sys = SysZero
    /\ windows = NoWindows
    /\ event_thread = NoEvent
    /\ w_pc = "new"
    /\ w_last = NoLast
    /\ w_fs = NoPlacement


(***************************************************************************)
(* The state machine of the model and its two threads.                     *)
(***************************************************************************)
Idle == [pc |-> "idle", task |-> 0, ret |-> 0]

UiReady == fault = "none" /\ uiPc.pc = "idle"

\* What an operation of the UI thread leaves behind.  The guards keep the
\* task and cache counters within the bounds of the model.
Commit(s, pc) ==
    /\ Len(s.tasks) <= MaxTasks
    /\ s.seq <= MaxCaches + 1
    /\ m_mediaLib' = s.ml
    /\ m_ml_event_handle' = s.handle
    /\ m_qmlInitializing' = s.qml
    /\ m_need_reset' = s.need
    /\ m_sort' = s.sort
    /\ m_sort_desc' = s.desc
    /\ m_search_pattern' = s.pattern
    /\ m_parent' = s.parent
    /\ m_limit' = s.limit
    /\ m_offset' = s.offset
    /\ m_cache' = s.cache
    /\ m_itemLoader' = s.itemLoader
    /\ tasks' = s.tasks
    /\ cacheSeq' = s.seq
    /\ fault' = s.fault
    /\ uiPc' = pc
    /\ last' = [ret |-> s.ret, ev |-> s.ev]
    /\ UNCHANGED << ldvars, winvars >>

MLInit ==
    /\ m_mediaLib = NoMl
    /\ m_ml_event_handle = NoMl
    /\ m_qmlInitializing = FALSE
    /\ m_need_reset = FALSE
    /\ m_sort = VLC_ML_SORTING_DEFAULT
    /\ m_sort_desc = FALSE
    /\ m_search_pattern = QStringNull
    /\ m_parent = 0
    /\ m_limit = 0
    /\ m_offset = 0
    /\ m_cache = NoCache
    /\ m_itemLoader = NoLoader
    /\ tasks = << >>
    /\ cacheSeq = 1
    /\ uiPc = Idle
    /\ fault = "none"
    /\ last = [ret |-> 0, ev |-> << >>]

LoadOff ==
    /\ ld_pc = "off"
    /\ ld_indexes = << >>
    /\ ld_rows = 0
    /\ ld_ctx = NoCtx
    /\ ld_delivered = << >>

Init == MLInit /\ LoadOff /\ WinOff

SetMl == \E medialib \in MediaLibs :
    UiReady /\ Commit(setMl(St, medialib), Idle)

ClassBegin == UiReady /\ Commit(classBegin(St), Idle)

ComponentComplete ==
    UiReady /\ Commit(componentComplete(St), Idle)

SetSortOrder == \E desc \in BOOLEAN :
    UiReady /\ Commit(setSortOrder(St, desc), Idle)

\* data(index, role), which is how the views reach item(row).
DataCall(row) == UiReady /\ Commit(data(St, row), Idle)

Data == \E row \in -1..MaxRows : DataCall(row)

GetDataIndexLists == UNION {[1..n -> Rows] : n \in 0..MaxIdx}

GetDataCall(indexes, isCallable) ==
    /\ UiReady
    /\ LET s == getData(St, indexes, isCallable)
       IN  Commit(s,
                  IF isCallable /\ s.fault = "none"
                  THEN [pc |-> "getData", task |-> Len(s.tasks), ret |-> s.tid]
                  ELSE Idle)

GetData == \E indexes \in GetDataIndexLists, isCallable \in BOOLEAN :
    GetDataCall(indexes, isCallable)

\* *requestId = <what loadItems returned>
GetDataStore ==
    /\ fault = "none"
    /\ uiPc.pc = "getData"
    /\ Commit([St EXCEPT !.tasks[uiPc.task] =
                   GetDataStoreRequestId(@, uiPc.ret)],
              Idle)

UpdateItemInCacheCall(mlid) ==
    UiReady /\ Commit(updateItemInCache(St, mlid), Idle)

UpdateItemInCache == \E mlid \in 1..MaxRows : UpdateItemInCacheCall(mlid)

\* The model subclasses override onVlcMlEvent, set m_need_reset when the
\* event touches what they list, and call the base class.
MlEvents ==
    [type : {"BACKGROUND_IDLE_CHANGED"}, idle : BOOLEAN, success : {FALSE},
     id : {0}]
    \cup [type : {"MEDIA_THUMBNAIL_GENERATED"}, idle : {FALSE},
          success : BOOLEAN, id : 1..MaxRows]
    \cup [type : {"OTHER"}, idle : {FALSE}, success : {FALSE}, id : {0}]

OnVlcMlEventCall(event, mlIdle, needsReset) ==
    /\ UiReady
    /\ m_ml_event_handle # NoMl
    /\ needsReset => event.type = "OTHER"
    /\ Commit(onVlcMlEvent([St EXCEPT !.need = @ \/ needsReset],
                           event, mlIdle),
              Idle)

OnVlcMlEvent ==
    \E event \in MlEvents, mlIdle \in BOOLEAN, needsReset \in BOOLEAN :
        OnVlcMlEventCall(event, mlIdle, needsReset)

\* ---- the media-library thread: the first lambda of a queued task.  The
\* library holds some number n of items at the moment the task queries it.
TaskML(task, Q) ==
    CASE task.kind = "count" -> CountTaskML(Q)
      [] task.kind = "load" -> LoadTaskML(Q, task.arg[1], task.arg[2])
      [] task.kind = "countAndLoad" ->
             CountAndLoadTaskML(Q, task.arg[1], task.arg[2])
      [] task.kind = "loadItems" -> LoadItemsTaskML(Q, task.arg)
      [] task.kind = "loadItemById" -> LoadItemByIdTaskML(Q, task.arg[1])

MLThreadRunOn(t, n) ==
    /\ fault = "none"
    /\ tasks[t].st = "queued"
    /\ LET ctx == TaskML(tasks[t], OpQuery(n, tasks[t].loader))
       IN  IF tasks[t].kind = "loadItems" /\ ctx.thrown
           THEN /\ fault' = "terminate"
                /\ UNCHANGED tasks
           ELSE /\ tasks' = [tasks EXCEPT
                               ![t].ctx = ctx, ![t].st = "posted",
                               ![t].mlDone = TRUE,
                               ![t].early = (uiPc.pc # "idle" /\ uiPc.task = t)]
                /\ UNCHANGED fault
    /\ UNCHANGED << m_mediaLib, m_ml_event_handle, m_qmlInitializing,
                    m_need_reset, m_sort, m_sort_desc, m_search_pattern,
                    m_parent, m_limit, m_offset, m_cache, m_itemLoader,
                    cacheSeq, uiPc, last, ldvars, winvars >>

MLThreadRun == \E t \in 1..Len(tasks), n \in 0..MaxRows : MLThreadRunOn(t, n)

\* ---- the UI thread's event loop: the second lambda of a finished task
TaskUI(task, t) ==
    CASE task.kind = "count" -> CountTaskUI(t, task.ctx)
      [] task.kind = "load" -> LoadTaskUI(t, task.ctx)
      [] task.kind = "countAndLoad" -> CountAndLoadTaskUI(t, task.ctx)
      [] task.kind = "loadItems" -> LoadItemsTaskUI(t, task.ctx)
      [] task.kind = "loadItemById" -> LoadItemByIdTaskUI(t, task.ctx)

\* One call of the callback the task was started with.
Callback(s, t, call, jsEngine) ==
    LET task == s.tasks[t]
        s1   == [s EXCEPT !.tasks[t].cbs = Append(@, call.id)]
    IN  CASE task.cb = "cacheCountAndLoad" ->
                 onLocalSizeChanged(
                     CacheStore([s1 EXCEPT !.cache.queryCount = call.maximumCount],
                                task.arg[1], call.list),
                     call.maximumCount, call.maximumCount)
          [] task.cb = "cacheCount" ->
                 onLocalSizeChanged([s1 EXCEPT !.cache.queryCount = call.count],
                                    call.count, call.count)
          [] task.cb = "cacheLoad" ->
                 onCacheDataChanged(CacheStore(s1, task.arg[1], call.list),
                                    task.arg[1])
          [] task.cb = "getData" ->
                 [s1 EXCEPT !.tasks[t].js =
                     @ \o GetDataCallback(task, call.id, call.items, jsEngine)]
          [] task.cb = "play" ->
                 [s1 EXCEPT !.tasks[t].js = @ \o AddAndPlayCallback(s1, call.items)]
          [] task.cb = "updateItem" -> UpdateItemCallback(s1, call.item)

RECURSIVE Callbacks(_, _, _, _)
Callbacks(s, t, calls, jsEngine) ==
    IF calls = << >> THEN s
    ELSE Callbacks(Callback(s, t, Head(calls), jsEngine), t, Tail(calls),
                   jsEngine)

UiDeliver == \E t \in 1..Len(tasks), jsEngine \in BOOLEAN :
    /\ UiReady
    /\ tasks[t].st = "posted"
    /\ Commit(Callbacks([St EXCEPT !.tasks[t].st = "done",
                                   !.tasks[t].ctx = NoCtx,
                                   !.tasks[t].loader = NoLoader,
                                   !.tasks[t].eng =
                                       (jsEngine /\ tasks[t].cb = "getData"),
                                   !.tid = t],
                        t, TaskUI(tasks[t], t), jsEngine),
              Idle)

Next ==
    \/ SetMl
    \/ ClassBegin
    \/ ComponentComplete
    \/ SetSortOrder
    \/ Data
    \/ GetData
    \/ GetDataStore
    \/ UpdateItemInCache
    \/ OnVlcMlEvent
    \/ MLThreadRun
    \/ UiDeliver

Spec == Init /\ [][Next]_vars


(***************************************************************************)
(* SpecQuery: the model with its query parameters.  The views change the   *)
(* sort criterion and order, the search pattern and the parent; getData    *)
(* and addAndPlay load items meanwhile.                                    *)
(***************************************************************************)
QueryMediaLibs == {"ml1", "ml2"}

SortNames == {"title", "id"}

SortOrders == {"AscendingOrder", "DescendingOrder"}

Patterns == {QStringNull, QString(""), QString("a")}

MaxParent == 1
MaxLimit == 1

SetMlCall(medialib) == UiReady /\ Commit(setMl(St, medialib), Idle)

SetMlAny == \E medialib \in QueryMediaLibs : SetMlCall(medialib)

SortByColumnCall(name, order) ==
    UiReady /\ Commit(sortByColumn(St, name, order), Idle)

SortByColumn == \E name \in SortNames, order \in SortOrders :
    SortByColumnCall(name, order)

SetSortOrderCall(desc) == UiReady /\ Commit(setSortOrder(St, desc), Idle)

SetSortOrderAny == \E desc \in BOOLEAN : SetSortOrderCall(desc)

SetSortCriteriaCall(criteria) ==
    UiReady /\ Commit(setSortCriteria(St, criteria), Idle)

SetSortCriteria == \E criteria \in SortNames : SetSortCriteriaCall(criteria)

UnsetSortCriteriaCall == UiReady /\ Commit(unsetSortCriteria(St), Idle)

UnsetSortCriteria == UnsetSortCriteriaCall

SetSearchPatternCall(pattern) ==
    UiReady /\ Commit(setSearchPattern(St, pattern), Idle)

SetSearchPattern == \E pattern \in Patterns : SetSearchPatternCall(pattern)

SetParentId == \E parentId \in 0..MaxParent :
    UiReady /\ Commit(setParentId(St, parentId), Idle)

UnsetParentId == UiReady /\ Commit(unsetParentId(St), Idle)

SetLimitCall(limit) == UiReady /\ Commit(setLimit(St, limit), Idle)

SetLimit == \E limit \in 0..MaxLimit : SetLimitCall(limit)

SetOffsetCall(offset) == UiReady /\ Commit(setOffset(St, offset), Idle)

SetOffset == \E offset \in 0..MaxLimit : SetOffsetCall(offset)

\* The views ask for the rows they show: lists of MaxIdx rows.
QueryIndexLists == [1..MaxIdx -> {0}]

GetDataRows == \E indexes \in QueryIndexLists : GetDataCall(indexes, TRUE)

AddAndPlayCall(list) == UiReady /\ Commit(addAndPlay(St, list), Idle)

AddAndPlay == \E list \in QueryIndexLists : AddAndPlayCall(list)

Destroy ==
    /\ UiReady
    /\ Commit(Destructor(St), [pc |-> "destroyed", task |-> 0, ret |-> 0])

\* The ML thread on a library that holds MaxRows items.
MLThreadRunFull == \E t \in 1..Len(tasks) : MLThreadRunOn(t, MaxRows)

NextQuery ==
    \/ SetMl
    \/ ClassBegin
    \/ ComponentComplete
    \/ SortByColumn
    \/ SetSortOrderAny
    \/ SetSortCriteria
    \/ SetSearchPattern
    \/ SetParentId
    \/ UnsetParentId
    \/ GetDataRows
    \/ GetDataStore
    \/ AddAndPlay
    \/ MLThreadRunFull
    \/ UiDeliver

SpecQuery == Init /\ [][NextQuery]_vars

(***************************************************************************)
(* SpecParams: the model and the setters of its query parameters, on one   *)
(* media library.                                                          *)
(***************************************************************************)
NextParams ==
    \/ SetMl
    \/ ClassBegin
    \/ ComponentComplete
    \/ SortByColumn
    \/ SetSortOrderAny
    \/ SetSortCriteria
    \/ UnsetSortCriteria
    \/ SetSearchPattern
    \/ SetParentId
    \/ UnsetParentId
    \/ SetLimit
    \/ SetOffset
    \/ MLThreadRun
    \/ UiDeliver

SpecParams == Init /\ [][NextParams]_vars

(***************************************************************************)
(* SpecMl: the model between two media libraries.  setMl is called with    *)
(* either library at any time, getData loads items, and the model is       *)
(* destroyed at some point.                                                *)
(***************************************************************************)
NextMl ==
    \/ SetMlAny
    \/ ClassBegin
    \/ ComponentComplete
    \/ GetData
    \/ GetDataStore
    \/ Destroy
    \/ MLThreadRun
    \/ UiDeliver

SpecMl == Init /\ [][NextMl]_vars


(***************************************************************************)
(* SpecEdit: the model while the subclasses edit the cache in place, on    *)
(* their media-library events: an item updated or deleted, a range of rows *)
(* moved or deleted.                                                       *)
(***************************************************************************)
DeleteItemInCacheCall(mlid) ==
    UiReady /\ Commit(deleteItemInCache(St, mlid), Idle)

DeleteItemInCache == \E mlid \in 1..MaxRows : DeleteItemInCacheCall(mlid)

\* The subclasses name rows the cache holds; without a cache the arguments
\* are not looked at.
RowRange(first, last_) ==
    /\ first <= last_
    /\ m_cache.id # 0 => last_ < m_cache.queryCount

MoveRangeInCacheCall(first, last_, to) ==
    /\ UiReady
    /\ RowRange(first, last_)
    /\ to < first \/ to > last_ + 1
    /\ m_cache.id # 0 => to <= m_cache.queryCount
    /\ Commit(moveRangeInCache(St, first, last_, to), Idle)

MoveRangeInCache ==
    \E first \in Rows, last_ \in Rows, to \in 0..MaxRows :
        MoveRangeInCacheCall(first, last_, to)

DeleteRangeInCacheCall(first, last_) ==
    /\ UiReady
    /\ RowRange(first, last_)
    /\ Commit(deleteRangeInCache(St, first, last_), Idle)

DeleteRangeInCache ==
    \E first \in Rows, last_ \in Rows : DeleteRangeInCacheCall(first, last_)

NextEdit ==
    \/ SetMl
    \/ ClassBegin
    \/ ComponentComplete
    \/ Data
    \/ UpdateItemInCache
    \/ DeleteItemInCache
    \/ MoveRangeInCache
    \/ DeleteRangeInCache
    \/ MLThreadRun
    \/ UiDeliver

SpecEdit == Init /\ [][NextEdit]_vars

(***************************************************************************)
(* SpecLoad: one loadItemsTask taken alone.  The index list and the number *)
(* of rows of the query result are drawn at the start; the ML-thread       *)
(* lambda runs, then the UI-thread lambda hands ctx.items to the callback. *)
(* An index list may hold duplicates, rows past the end and -1 (the row of *)
(* an invalid QModelIndex).                                                *)
(***************************************************************************)
LoadIndexLists == UNION {[1..n -> -1..MaxLoadRows] : n \in 0..MaxLoadIdx}

InitLoad ==
    /\ MLInit
    /\ ld_pc = "queued"
    /\ ld_indexes \in LoadIndexLists
    /\ ld_rows \in 0..MaxLoadRows
    /\ ld_ctx = NoCtx
    /\ ld_delivered = << >>
    /\ WinOff

LoadRunML ==
    /\ ld_pc = "queued"
    /\ ld_ctx' = LoadItemsTaskML(QueryResult(ld_rows, FALSE), ld_indexes)
    /\ ld_pc' = IF ld_ctx'.thrown THEN "terminated" ELSE "posted"
    /\ UNCHANGED << ld_indexes, ld_rows, ld_delivered, mlvars, winvars >>

LoadRunUI ==
    /\ ld_pc = "posted"
    /\ ld_delivered' = LoadItemsTaskUI(1, ld_ctx)
    /\ ld_pc' = "done"
    /\ UNCHANGED << ld_indexes, ld_rows, ld_ctx, mlvars, winvars >>

NextLoad == LoadRunML \/ LoadRunUI

SpecLoad == InitLoad /\ [][NextLoad]_vars

(***************************************************************************)
(* SpecWin: one display using the Win32 helper.  The display module calls  *)
(* CommonInit, then CommonManage and CommonControl in any order; the user  *)
(* and the embedding application move and resize windows meanwhile, and    *)
(* the event thread raises has_moved.                                      *)
(***************************************************************************)
InitWin == MLInit /\ LoadOff /\ WinNew

WinReady == w_pc = "ready"

\* What a call of the helper leaves behind.  fs is the new value of w_fs and
\* restores its old one when the call is a leave-fullscreen request.
WinCommit(w, op, pc, fs, restores) ==
    /\ sys' = w.sys
    /\ windows' = w.windows
    /\ event_thread' = w.event
    /\ w_pc' = pc
    /\ w_last' = [op |-> op, ret |-> w.ret, calls |-> w.calls,
                  placement |-> w.placement, restores |-> restores]
    /\ w_fs' = fs
    /\ UNCHANGED << mlvars, ldvars >>

CommonInitCall ==
    \E b_windowless \in BOOLEAN, vdcfg \in Cfgs, start \in EventStarts :
        /\ w_pc = "new"
        /\ LET w == CommonInit(Vd, b_windowless, vdcfg, start)
           IN  WinCommit(w, "CommonInit",
                         IF w.ret = VLC_SUCCESS THEN "ready" ELSE "failed",
                         NoPlacement, NoPlacement)

CommonManageCall ==
    /\ WinReady
    /\ WinCommit([CommonManage(Vd) EXCEPT !.ret = "void"], "CommonManage",
                 "ready", w_fs, NoPlacement)

ControlArgs ==
    [query : CfgQueries, cfg : {c \in Cfgs : ~c.is_fullscreen},
     above : {FALSE}, fs : {FALSE}]
    \cup [query : {"VOUT_DISPLAY_CHANGE_DISPLAY_SIZE"}, cfg : Cfgs,
          above : {FALSE}, fs : {FALSE}]
    \cup [query : {"VOUT_DISPLAY_CHANGE_WINDOW_STATE"}, cfg : {CfgZero},
          above : BOOLEAN, fs : {FALSE}]
    \cup [query : {"VOUT_DISPLAY_CHANGE_FULLSCREEN"}, cfg : {CfgZero},
          above : {FALSE}, fs : BOOLEAN]
    \cup [query : {"VOUT_DISPLAY_RESET_PICTURES", "OTHER"}, cfg : {CfgZero},
          above : {FALSE}, fs : {FALSE}]

CommonControlCall(a, unreachable) ==
    /\ WinReady
    /\ LET w    == CommonControl(Vd, a, unreachable)
           acts == /\ a.query = "VOUT_DISPLAY_CHANGE_FULLSCREEN"
                   /\ sys.parent_window = NULL
                   /\ ~sys.b_windowless
       IN  WinCommit(w, a.query,
                     IF w.ret = "abort" THEN "aborted" ELSE "ready",
                     IF acts /\ a.fs
                     THEN GetWindowPlacement(windows, FullscreenHwnd(sys))
                     ELSE IF acts THEN NoPlacement ELSE w_fs,
                     IF acts /\ ~a.fs THEN w_fs ELSE NoPlacement)

CommonControlCalls ==
    \E a \in ControlArgs, unreachable \in {"assert", "default"} :
        /\ a.query # "VOUT_DISPLAY_RESET_PICTURES" => unreachable = "default"
        /\ CommonControlCall(a, unreachable)

\* The user moves or resizes the display's own top-level window; the event
\* thread sees the message.
UserMovesWindow == \E a \in Areas :
    /\ WinReady
    /\ ~sys.b_windowless
    /\ sys.hparent = NULL
    /\ windows.hwnd.showCmd = "SW_SHOWNORMAL"
    /\ a # windows.hwnd.pos
    /\ windows' = [windows EXCEPT !.hwnd.pos = a, !.hwnd.rcNormalPosition = a]
    /\ event_thread' = [event_thread EXCEPT !.has_moved = TRUE]
    /\ UNCHANGED << sys, w_pc, w_last, w_fs, mlvars, ldvars >>

\* The embedding application moves or resizes the parent window.
ParentMoves == \E a \in Areas :
    /\ WinReady
    /\ sys.hparent # NULL
    /\ a # windows.hparent
    /\ windows' = [windows EXCEPT !.hparent = a]
    /\ UNCHANGED << sys, event_thread, w_pc, w_last, w_fs, mlvars, ldvars >>

\* The event thread handles the message a SetWindowPos of the helper sent.
EventThreadMessage ==
    /\ WinReady
    /\ ~sys.b_windowless
    /\ ~event_thread.has_moved
    /\ event_thread' = [event_thread EXCEPT !.has_moved = TRUE]
    /\ UNCHANGED << sys, windows, w_pc, w_last, w_fs, mlvars, ldvars >>

NextWin ==
    \/ CommonInitCall
    \/ CommonManageCall
    \/ CommonControlCalls
    \/ UserMovesWindow
    \/ ParentMoves
    \/ EventThreadMessage

SpecWin == InitWin /\ [][NextWin]_vars


(***************************************************************************)
(* Claims about MLBaseModel and MLListCacheLoader, checked under Spec and  *)
(* SpecLoad.                                                               *)
(***************************************************************************)

\* C2: for every list of row indexes passed to loadItemsTask, in any order,
\* duplicates allowed, all within the query result, the item vector given to
\* the callback has as many entries as the list, and its entry i is the item
\* at row indexes[i] of the query result.
C2_ItemsFollowIndexes ==
    (/\ ld_pc = "done"
     /\ \A i \in 1..Len(ld_indexes) :
            ld_indexes[i] >= 0 /\ ld_indexes[i] < ld_rows)
    => LET items == ld_delivered[1].items
       IN  /\ Len(items) = Len(ld_indexes)
           /\ \A i \in 1..Len(ld_indexes) :
                  items[i] = QueryResult(ld_rows, FALSE)[ld_indexes[i] + 1]

\* C1: for every task started by countTask, loadTask, countAndLoadTask,
\* loadItemsTask or loadItemByIdTask, the caller's callback runs on the UI
\* thread only after the ML-thread part of that task has ended, is called at
\* most once, and is given the task id that the start call returned.
C1_CallbackAfterMLPartOnceWithTaskId ==
    /\ \A t \in 1..Len(tasks) :
        /\ Len(tasks[t].cbs) <= 1
        /\ \A i \in 1..Len(tasks[t].cbs) : tasks[t].cbs[i] = tasks[t].id
        /\ tasks[t].cbs # << >> => tasks[t].mlDone
    /\ uiPc.pc = "getData" => uiPc.ret = tasks[uiPc.task].id

\* Two tasks of different kinds have both called their callback.
C1_Witness ==
    \E t, u \in 1..Len(tasks) :
        /\ tasks[t].kind = "countAndLoad" /\ tasks[t].cbs = << tasks[t].id >>
        /\ tasks[u].kind = "loadItemById" /\ tasks[u].cbs = << tasks[u].id >>

C4_RowCountEqualsGetCount ==
    /\ rowCount(St, FALSE) = getCount(St)
    /\ rowCount(St, FALSE) # COUNT_UNINITIALIZED
    /\ rowCount(St, TRUE) = 0

\* C5: data(index, role), and item(row) inside it, return an empty value
\* without calling refer or get on the cache when there is no cache, when the
\* count is 0 or uninitialised, or when row is outside [0, count); for a row
\* inside [0, count) they call refer(row), then get(row), and return the
\* cached item, or null when the row is not loaded yet.
C5_ItemGuardsCacheAccess ==
    [][\A row \in -1..MaxRows :
          DataCall(row) =>
              IF \/ m_cache.id = 0
                 \/ m_cache.queryCount = 0
                 \/ m_cache.queryCount = COUNT_UNINITIALIZED
                 \/ row < 0
                 \/ row >= m_cache.queryCount
              THEN last'.ret = NullItem /\ last'.ev = << >>
              ELSE /\ last'.ev = << << "cache.refer", row >>,
                                    << "cache.get", row >> >>
                   /\ last'.ret = m_cache.data[row]]_vars

\* A row inside [0, count) was asked for, and its cached item returned.
C5_Witness ==
    /\ Len(last.ev) = 2
    /\ last.ev[1][1] = "cache.refer"
    /\ last.ev[2][1] = "cache.get"
    /\ last.ret # NullItem

\* C6: whenever loading() differs between two successive states of the
\* model, the operation that made the change has emitted loadingChanged.
C6_LoadingChangeEmitsLoadingChanged ==
    [][loading(St)' # loading(St) => Emitted(last', "loadingChanged")]_vars

(***************************************************************************)
(* Claims about the Win32 display helper, checked under SpecWin.           *)
(***************************************************************************)
FullscreenArgs(fs) ==
    [query |-> "VOUT_DISPLAY_CHANGE_FULLSCREEN", cfg |-> CfgZero,
     above |-> FALSE, fs |-> fs]

\* C7: a VOUT_DISPLAY_CHANGE_FULLSCREEN request on a display embedded in a
\* parent window (parent_window set) returns VLC_EGENERIC, changes no window
\* (style, place, parent, visibility) and makes no call at all, so UpdateRects
\* does not run; on a windowless display it returns VLC_SUCCESS, changes no
\* window and makes no Win32 call: all it runs is UpdateRects.
C7_FullscreenRefusedWhenEmbedded ==
    [][\A fs \in BOOLEAN :
         CommonControlCall(FullscreenArgs(fs), "default") =>
            /\ sys.parent_window # NULL =>
                  /\ w_last'.ret = VLC_EGENERIC
                  /\ windows' = windows
                  /\ w_last'.calls = << >>
            /\ sys.b_windowless =>
                  /\ w_last'.ret = VLC_SUCCESS
                  /\ windows' = windows
                  /\ \A i \in 1..Len(w_last'.calls) :
                        w_last'.calls[i][1] = "UpdateRects"]_vars

\* C7 happens: an embedded display, its window on screen, has just refused a
\* fullscreen request.
C7_Witness ==
    /\ w_last.op = "VOUT_DISPLAY_CHANGE_FULLSCREEN"
    /\ sys.parent_window # NULL
    /\ windows.hwnd.visible
    /\ w_last.ret = VLC_EGENERIC

\* C8: for a window that is not embedded (no hparent), the placement passed
\* to SetWindowPlacement when fullscreen is left is the placement the window
\* had before the request that entered fullscreen.
C8_LeaveRestoresPlacementBeforeEnter ==
    (/\ w_last.op = "VOUT_DISPLAY_CHANGE_FULLSCREEN"
     /\ sys.hparent = NULL
     /\ w_last.restores # NoPlacement)
    => w_last.placement = w_last.restores

\* The parent's client rectangle in screen coordinates, as the OS holds it.
ParentScreenRect(ws) ==
    OffsetRect(GetClientRect(ws, "hparent"), ClientToScreen(ws, "hparent").x,
               ClientToScreen(ws, "hparent").y)

\* C9: CommonManage does nothing on a windowless display.  On a display with
\* an embedding parent, after the call sys->rect_parent is the parent's
\* client rectangle in screen coordinates; the host window hwnd is given the
\* parent's size and UpdateRects runs forced exactly when that rectangle
\* differed from the stored one, and if it did not and has_moved was not
\* raised no window changes.  The has_moved flag is read and reset once per
\* call, and UpdateRects runs non-forced exactly when the flag was raised.
C9_ManageTracksParentAndHasMoved ==
    [][CommonManageCall =>
         LET calls   == w_last'.calls
             differs == ~EqualRect(ParentScreenRect(windows), sys.rect_parent)
         IN  IF sys.b_windowless
             THEN /\ sys' = sys
                  /\ windows' = windows
                  /\ event_thread' = event_thread
                  /\ calls = << >>
             ELSE /\ sys.hparent # NULL =>
                     /\ sys'.rect_parent = ParentScreenRect(windows')
                     /\ Called(calls, "SetWindowPos", "hwnd") <=> differs
                     /\ Called(calls, "UpdateRects", "forced") <=> differs
                     /\ differs =>
                           /\ windows'.hwnd.pos.w =
                                  RECTWidth(ParentScreenRect(windows'))
                           /\ windows'.hwnd.pos.h =
                                  RECTHeight(ParentScreenRect(windows'))
                     /\ (~differs /\ ~event_thread.has_moved) =>
                           windows' = windows
                  /\ CallCount(calls, "EventThreadGetAndResetHasMoved") = 1
                  /\ ~event_thread'.has_moved
                  /\ Called(calls, "UpdateRects", "not_forced")
                         <=> event_thread.has_moved]_vars

\* C9 happens: a CommonManage call on an embedded display has found the
\* parent elsewhere and the has_moved flag raised.
C9_Witness ==
    /\ w_last.op = "CommonManage"
    /\ sys.hparent # NULL
    /\ Called(w_last.calls, "SetWindowPos", "hwnd")
    /\ Called(w_last.calls, "UpdateRects", "forced")
    /\ Called(w_last.calls, "UpdateRects", "not_forced")
    /\ sys.rect_parent = ParentScreenRect(windows)

\* The display state C10 names.
DisplayState(s) ==
    << s.vdcfg, s.rect_dest, s.rect_dest_changed, s.is_on_top,
       s.is_first_placement >>

\* C10: whenever CommonControl returns from a query that none of its cases
\* handles, it returns VLC_EGENERIC, has made no call and has left vdcfg,
\* rect_dest, rect_dest_changed, is_on_top and is_first_placement as they
\* were; for DISPLAY_FILLED, ZOOM, SOURCE_ASPECT and SOURCE_CROP it stores the
\* configuration, runs UpdateRects once, forced, and returns VLC_SUCCESS; for
\* DISPLAY_SIZE it stores the configuration, runs UpdateRects once, not
\* forced, returns VLC_SUCCESS, and resizes the window hwnd exactly when the
\* configuration is not fullscreen and the display is not windowless.
C10_ControlDispatch ==
    [][\A a \in ControlArgs, unreachable \in {"assert", "default"} :
         (w_last'.op = a.query /\ CommonControlCall(a, unreachable)) =>
            LET calls == w_last'.calls
            IN  /\ (/\ a.query \in {"OTHER", "VOUT_DISPLAY_RESET_PICTURES"}
                    /\ w_pc' = "ready") =>
                      /\ w_last'.ret = VLC_EGENERIC
                      /\ calls = << >>
                      /\ DisplayState(sys') = DisplayState(sys)
                /\ a.query \in CfgQueries =>
                      /\ sys'.vdcfg = a.cfg
                      /\ CallCount(calls, "UpdateRects") = 1
                      /\ Called(calls, "UpdateRects", "forced")
                      /\ w_last'.ret = VLC_SUCCESS
                /\ a.query = "VOUT_DISPLAY_CHANGE_DISPLAY_SIZE" =>
                      /\ sys'.vdcfg = a.cfg
                      /\ CallCount(calls, "UpdateRects") = 1
                      /\ Called(calls, "UpdateRects", "not_forced")
                      /\ w_last'.ret = VLC_SUCCESS
                      /\ Called(calls, "SetWindowPos", sys.hwnd)
                            <=> (~a.cfg.is_fullscreen /\ ~sys.b_windowless)]_vars

\* C10 happens: a display whose state has been set by earlier requests has
\* just answered a query it does not handle.
C10_Witness ==
    /\ w_last.op = "OTHER"
    /\ w_last.ret = VLC_EGENERIC
    /\ sys.rect_dest_changed
    /\ sys.is_on_top
    /\ sys.vdcfg.is_fullscreen


(***************************************************************************)
(* Claims about the query parameters of MLBaseModel, checked under         *)
(* SpecQuery, SpecParams and SpecMl.                                       *)
(***************************************************************************)

\* C11: whatever parameter changes came before, a getData or addAndPlay call
\* starts its load task on a loader built from the model's current sort
\* criterion, sort order, search pattern and parent id, so that the rows the
\* task loads are the rows the model's current parameters yield.
C11_LoadItemsUsesCurrentParameters ==
    [][\A indexes \in QueryIndexLists :
          ((GetDataCall(indexes, TRUE) \/ AddAndPlayCall(indexes))
           /\ Len(tasks') > Len(tasks))
          => LET loader == tasks'[Len(tasks')].loader
             IN  /\ loader.sort = m_sort
                 /\ loader.desc = m_sort_desc
                 /\ QStringEqual(loader.pattern, m_search_pattern)
                 /\ loader.parent = m_parent
                 /\ \A n \in 0..MaxRows :
                        OpQuery(n, loader) = OpQuery(n, createLoader(St))]_vars

\* The query parameters of the model, and those a cache was created with.
ModelParameters ==
    << m_sort, m_sort_desc, m_search_pattern, m_parent, m_limit, m_offset >>

CacheParameters(cache) ==
    << cache.loader.sort, cache.loader.desc, cache.loader.pattern,
       cache.loader.parent, cache.limit, cache.offset >>

\* C12: a cache that exists has the model's current limit and offset and a
\* loader with the model's current sort criterion, sort order, search pattern
\* and parent id; every operation that changes one of the six values destroys
\* the cache that existed before it returns; a cache that stays is not
\* re-parameterised, and validateCache leaves a model that has a cache as it
\* is.
C12_CacheBuiltFromCurrentParameters ==
    [][/\ m_cache'.id # 0 => CacheParameters(m_cache') = ModelParameters'
       /\ (ModelParameters' # ModelParameters /\ m_cache.id # 0)
          => /\ m_cache'.id # m_cache.id
             /\ \E i \in 1..Len(last'.ev) :
                    last'.ev[i] = << "cache.destroy", m_cache.id >>
       /\ (m_cache.id # 0 /\ m_cache'.id = m_cache.id)
          => CacheParameters(m_cache') = CacheParameters(m_cache)
       /\ m_cache.id # 0 => validateCache(St) = St]_vars

\* A second cache exists, created by the setLimit call that destroyed the
\* first one.
C12_Witness ==
    /\ m_cache.id = 2
    /\ m_limit = 1
    /\ last.ev[2] = << "cache.destroy", 1 >>
    /\ Emitted(last, "limitChanged")

\* C13: a setMl(m) with m other than the model's media library leaves the
\* event listener registered on m, and the cache and the item loader, where
\* they exist, querying m; and the destructor unregisters the listener from
\* the media library it was registered on.
C13_SetMlSwitchesMediaLibrary ==
    [][/\ \A m \in QueryMediaLibs :
              (SetMlCall(m) /\ m # m_mediaLib)
              => /\ m_ml_event_handle' = m
                 /\ m_cache'.id # 0 => m_cache'.loader.ml = m
                 /\ m_itemLoader'.set => m_itemLoader'.ml = m
       /\ \A i \in 1..Len(last'.ev) :
              last'.ev[i][1] = "unregisterEventListener"
              => last'.ev[i][2] = MlIndex(m_ml_event_handle)]_vars

(***************************************************************************)
(* A claim about the completion of updateItemInCache, checked under Spec.  *)
(***************************************************************************)

\* C14: whenever the completion callback of the load-by-id task started by
\* updateItemInCache is called on the UI thread, the model has a cache, also
\* when the cache that existed at the start of the task was destroyed
\* meanwhile.
C14_UpdateItemCallbackHasCache ==
    [][\A t \in 1..Len(tasks) :
          (/\ tasks[t].cb = "updateItem"
           /\ tasks[t].cbs = << >>
           /\ tasks'[t].cbs # << >>)
          => m_cache.id # 0]_vars

(***************************************************************************)
(* Claims about loadItemsTask taken alone, checked under SpecLoad.         *)
(***************************************************************************)

\* C15: for row indexes from 0 up, when the media library has no item for a
\* requested index (the index is past the end of the query result, so the
\* library returns fewer items than the range asks for), the task still
\* completes, the callback gets one entry per index, null at the positions
\* of such indexes, and the item of the row at the position of every index
\* that is in the result and is requested once.
C15_MissingItemDeliveredAsNull ==
    (\A i \in 1..Len(ld_indexes) : ld_indexes[i] >= 0)
    => /\ ld_pc # "terminated"
       /\ ld_pc = "done"
          => LET items == ld_delivered[1].items
             IN  /\ Len(items) = Len(ld_indexes)
                 /\ \A i \in 1..Len(ld_indexes) :
                        IF ld_indexes[i] >= ld_rows
                        THEN items[i] = NullItem
                        ELSE (\A j \in 1..Len(ld_indexes) :
                                  ld_indexes[j] = ld_indexes[i] => j = i)
                             => items[i] = QueryResult(ld_rows, FALSE)
                                               [ld_indexes[i] + 1]

\* The ranges loadItemsTask makes of the requested indexes.
RequestedRanges == IF ld_indexes = << >> THEN << >> ELSE IndexRanges(ld_indexes)

\* C16: once the ML-thread part of the task has run on a list of row indexes
\* from 0 up, the ranges are inclusive, disjoint and ascending; every
\* requested index lies in exactly one of them; each starts and ends at a requested
\* index; two successive sorted indexes are in the same range exactly when
\* they differ by less than 4; exactly one load is made per range, with
\* offset = low and count = high - low + 1; and for an empty index list no
\* load is made and an empty result is delivered.
C16_OneQueryPerRangeOfCloseIndexes ==
    (ld_pc # "queued" /\ \A i \in 1..Len(ld_indexes) : ld_indexes[i] >= 0) =>
      LET ranges  == RequestedRanges
          sorted  == SortIndexes(ld_indexes)
          Req     == {ld_indexes[i] : i \in 1..Len(ld_indexes)}
          RangeOf(x) == {k \in 1..Len(ranges) :
                            ranges[k].low <= x /\ x <= ranges[k].high}
      IN  /\ \A k \in 1..Len(ranges) :
                /\ ranges[k].low <= ranges[k].high
                /\ ranges[k].low \in Req /\ ranges[k].high \in Req
                /\ k > 1 => ranges[k - 1].high < ranges[k].low
          /\ \A x \in Req : Cardinality(RangeOf(x)) = 1
          /\ \A i \in 1..(Len(sorted) - 1) :
                (RangeOf(sorted[i]) = RangeOf(sorted[i + 1]))
                <=> (sorted[i + 1] - sorted[i] < 4)
          /\ ld_ctx.queries =
                [k \in 1..Len(ranges) |->
                    [i_offset |-> ranges[k].low,
                     i_nbResults |-> ranges[k].high - ranges[k].low + 1]]
          /\ ld_indexes = << >> =>
                /\ ld_ctx.queries = << >>
                /\ ld_pc = "done" => ld_delivered[1].items = << >>

\* The call left the model as it was: no signal, no reset, no cache operation,
\* the same cache object, no new task.
ModelUntouched ==
    /\ last'.ev = << >>
    /\ UNCHANGED << m_cache, cacheSeq, tasks, m_itemLoader, m_mediaLib,
                    m_sort, m_sort_desc, m_search_pattern, m_parent, m_limit,
                    m_offset >>

\* C17: setSortOrder, setSortCriteria, unsetSortCriteria, setLimit, setOffset,
\* setSearchPattern and sortByColumn, called with values equal to the current
\* ones (an empty search pattern being equal to an unset one), leave the model
\* unchanged: the cache is neither destroyed nor recreated, no model reset is
\* signalled and no change notification is emitted.
C17_SameValueIsNoOp ==
    [][/\ \A desc \in BOOLEAN :
              (SetSortOrderCall(desc) /\ desc = m_sort_desc) => ModelUntouched
       /\ \A criteria \in SortNames :
              (SetSortCriteriaCall(criteria)
               /\ nameToCriteria(criteria) = m_sort) => ModelUntouched
       /\ (UnsetSortCriteriaCall /\ m_sort = VLC_ML_SORTING_DEFAULT)
              => ModelUntouched
       /\ \A limit \in 0..MaxLimit :
              (SetLimitCall(limit) /\ limit = m_limit) => ModelUntouched
       /\ \A offset \in 0..MaxLimit :
              (SetOffsetCall(offset) /\ offset = m_offset) => ModelUntouched
       /\ \A pattern \in Patterns :
              (SetSearchPatternCall(pattern)
               /\ pattern.text = m_search_pattern.text) => ModelUntouched
       /\ \A name \in SortNames, order \in SortOrders :
              (SortByColumnCall(name, order)
               /\ nameToCriteria(name) = m_sort
               /\ (order = "DescendingOrder") = m_sort_desc)
              => ModelUntouched]_vars

\* A call has left no trace on a model that has a counted cache built from
\* parameters that were all changed before.
C17_Witness ==
    /\ m_cache.id # 0
    /\ m_cache.queryCount # COUNT_UNINITIALIZED
    /\ m_sort = VLC_ML_SORTING_ALPHA
    /\ m_sort_desc
    /\ m_search_pattern = QString("a")
    /\ m_limit = 1
    /\ m_offset = 1
    /\ ~m_qmlInitializing
    /\ last.ev = << >>

\* C18: an operation that changes the model's sort order emits
\* sortOrderChanged and an operation that changes its sort criterion emits
\* sortCriteriaChanged, whichever entry point makes the change.
C18_SortChangeIsNotified ==
    [][/\ m_sort_desc' # m_sort_desc => Emitted(last', "sortOrderChanged")
       /\ m_sort' # m_sort => Emitted(last', "sortCriteriaChanged")]_vars

(***************************************************************************)
(* Claim about the media-library events of MLBaseModel, checked under      *)
(* Spec.                                                                   *)
(***************************************************************************)

\* How many times the operation emitted the signal.
EmitCount(l, name) == Cardinality({i \in 1..Len(l.ev) : l.ev[i][1] = name})

\* C19: processing one media-library event emits resetRequested at most
\* once, and only when m_need_reset was set and the library is idle (the
\* event reports idle, or the media library answers idle after the event);
\* m_need_reset is false after every event processed while the library is
\* idle.  The reset handler invalidates an existing cache in place (the same
\* cache object, loadingChanged emitted) and creates a cache only when there
\* is none.
C19_EventResetsOnceWhenIdle ==
    [][\A event \in MlEvents, mlIdle \in BOOLEAN, needsReset \in BOOLEAN :
          OnVlcMlEventCall(event, mlIdle, needsReset) =>
              LET need == m_need_reset \/ needsReset
                  idle == \/ event.type = "BACKGROUND_IDLE_CHANGED" /\ event.idle
                          \/ m_mediaLib # NoMl /\ mlIdle
                  n    == EmitCount(last', "resetRequested")
              IN  /\ n <= 1
                  /\ n = 1 <=> (need /\ idle)
                  /\ idle => ~m_need_reset'
                  /\ ~idle => m_need_reset' = need
                  /\ (n = 1 /\ m_cache.id # 0)
                     => /\ m_cache'.id = m_cache.id
                        /\ EmitCount(last', "cache.invalidate") = 1
                        /\ Emitted(last', "loadingChanged")
                  /\ Emitted(last', "cache.create")
                     => (n = 1 /\ m_cache.id = 0 /\ m_cache'.id # 0)
                  /\ n = 0 => m_cache' = m_cache]_vars

\* An event has made the model reset: the cache that existed was invalidated
\* in place and m_need_reset is cleared.
C19_Witness ==
    /\ EmitCount(last, "resetRequested") = 1
    /\ Len(last.ev) >= 2
    /\ last.ev[2] = << "cache.invalidate", m_cache.id >>
    /\ m_cache.id # 0
    /\ ~m_need_reset

(***************************************************************************)
(* Claim about the cache edited in place, checked under SpecEdit.          *)
(***************************************************************************)
\* What one of the four operations must have done, from the state it was
\* called in to the state it left (primed): "present" says whether it is
\* updateItemInCache called for an item the cache holds.
CacheEditDone(present) ==
    LET reset == EmitCount(last', "resetRequested")
        added == Len(tasks') - Len(tasks)
    IN  IF m_cache.id = 0
        THEN /\ reset = 1
             /\ last'.ev[1] = << "resetRequested", 0 >>
             /\ \A i \in 1..Len(last'.ev) :
                    last'.ev[i][1] \notin {"cache.deleteItem", "cache.moveRange",
                                           "cache.deleteRange", "cache.get",
                                           "beginRemoveRows", "beginMoveRows"}
             /\ \A i \in 1..Len(tasks') :
                    i > Len(tasks) => tasks'[i].kind # "loadItemById"
             /\ m_itemLoader' = m_itemLoader
             /\ IF cachable(St)
                THEN m_cache'.id # 0 /\ Emitted(last', "cache.create")
                ELSE m_cache' = m_cache /\ tasks' = tasks
        ELSE /\ reset = 0
             /\ m_cache'.id = m_cache.id
             /\ added = (IF present THEN 1 ELSE 0)
             /\ present => tasks'[Len(tasks')].kind = "loadItemById"

\* C20: updateItemInCache, deleteItemInCache, moveRangeInCache and
\* deleteRangeInCache called without a cache do no cache operation and start
\* no load task; each emits resetRequested exactly once, and the handler
\* creates the cache exactly when the model is cachable.  With a cache none of
\* them emits resetRequested, and updateItemInCache starts a load-by-id task
\* only if the item is in the cache.
C20_CacheEditsResetWithoutCache ==
    [][/\ \A mlid \in 1..MaxRows :
              /\ UpdateItemInCacheCall(mlid)
                 => CacheEditDone(CacheFind(St, mlid) # -1)
              /\ DeleteItemInCacheCall(mlid) => CacheEditDone(FALSE)
       /\ \A first \in Rows, last_ \in Rows :
              /\ DeleteRangeInCacheCall(first, last_) => CacheEditDone(FALSE)
              /\ \A to \in 0..MaxRows :
                     MoveRangeInCacheCall(first, last_, to)
                     => CacheEditDone(FALSE)]_vars

\* updateItemInCache has started a load-by-id task for an item of the cache.
C20_Witness ==
    /\ m_cache.id # 0
    /\ Len(tasks) > 0
    /\ tasks[Len(tasks)].kind = "loadItemById"
    /\ tasks[Len(tasks)].st = "queued"
    /\ CacheFind(St, tasks[Len(tasks)].arg[1]) # -1

(***************************************************************************)
(* Claim about the life of the cache, checked under Spec.                  *)
(***************************************************************************)
\* The names of the trace l.ev among "names", in the order they happened.
EvOrder(l, names) ==
    LET keep == {i \in 1..Len(l.ev) : l.ev[i][1] \in names}
        nth(k) == CHOOSE i \in keep : Cardinality({j \in keep : j < i}) = k - 1
    IN  [k \in 1..Cardinality(keep) |-> l.ev[nth(k)][1]]

\* What every operation does to the cache: it creates one only while the
\* model is cachable and no other cache exists (the old one is destroyed
\* first), and calls initCount on it once, right after creating it.
CacheLifeStep ==
    LET ev == last'.ev
        created == {i \in 1..Len(ev) : ev[i][1] = "cache.create"}
    IN  /\ Cardinality(created) <= 1
        /\ (m_cache'.id # m_cache.id /\ m_cache'.id # 0)
           <=> created # {}
        /\ \A i \in created :
               /\ m_mediaLib' # NoMl /\ ~m_qmlInitializing'
               /\ m_cache'.id = ev[i][2]
               /\ \/ m_cache.id = 0
                  \/ \E j \in 1..(i - 1) : ev[j] = << "cache.destroy", m_cache.id >>
               /\ i < Len(ev) /\ ev[i + 1] = << "cache.initCount", ev[i][2] >>
        /\ EmitCount(last', "cache.initCount") = Cardinality(created)

\* The steps of resetCache, in their order.
ResetCacheOrder ==
    EvOrder(last', {"beginResetModel", "cache.destroy", "endResetModel",
                    "cache.create"})
    = << "beginResetModel" >>
      \o (IF m_cache.id # 0 THEN << "cache.destroy" >> ELSE << >>)
      \o << "endResetModel" >>
      \o (IF m_mediaLib # NoMl /\ ~m_qmlInitializing
          THEN << "cache.create" >> ELSE << >>)

\* C21: resetCache does beginResetModel, destroys the cache, does
\* endResetModel and creates the new cache, in this order, and rowCount is 0
\* from the destruction until a new cache reports a count.  A cache is
\* created only when cachable() holds, at most one cache exists at a time,
\* and initCount is called exactly once on each cache, right after it is
\* created and connected.
C21_ResetCacheOrderAndRowCount ==
    [][/\ (last' # last \/ m_cache' # m_cache) => CacheLifeStep
       /\ \A desc \in BOOLEAN :
              (SetSortOrderCall(desc) /\ desc # m_sort_desc)
              => /\ ResetCacheOrder
                 /\ rowCount(St, FALSE)' = 0]_vars

(***************************************************************************)
(* Claim about rect_dest_changed, checked under SpecWin.                   *)
(***************************************************************************)
\* One call of UpdateRects on the display w: the flag is raised when the
\* call has changed rect_dest and is otherwise left as it was.
UpdateRectsRaisesFlag(w, is_forced) ==
    LET w1 == UpdateRects(w, is_forced)
    IN  w1.sys.rect_dest_changed
        <=> (w.sys.rect_dest_changed
             \/ ~EqualRect(w.sys.rect_dest, w1.sys.rect_dest))

\* C22: rect_dest_changed is false after CommonInit; a call of UpdateRects
\* sets it exactly when the call changes rect_dest to a different rectangle;
\* no operation of the helper sets it back to false, so after CommonInit the
\* flag is raised by exactly the operations that changed rect_dest.
C22_RectDestChangedIsKept ==
    [][/\ w_pc = "new" => ~sys'.rect_dest_changed
       /\ w_pc # "new" =>
              /\ sys.rect_dest_changed => sys'.rect_dest_changed
              /\ sys'.rect_dest_changed
                 <=> (sys.rect_dest_changed
                      \/ ~EqualRect(sys.rect_dest, sys'.rect_dest))
       /\ (w_pc = "ready" /\ w_last' # w_last) =>
              \A is_forced \in BOOLEAN, vdcfg \in Cfgs :
                  UpdateRectsRaisesFlag([Vd EXCEPT !.sys.vdcfg = vdcfg],
                                        is_forced)]_vars

\* CommonManage has run UpdateRects after the window moved: rect_dest is the
\* rectangle the call computes and the flag is raised.
C22_Witness ==
    /\ w_last.op = "CommonManage"
    /\ Called(w_last.calls, "UpdateRects", "not_forced")
    /\ ~Called(w_last.calls, "UpdateRects", "forced")
    /\ sys.rect_dest_changed
    /\ ~EqualRect(sys.rect_dest, RectEmpty)
    /\ UpdateRects(Vd, TRUE).sys.rect_dest = sys.rect_dest

====
